---------------------------- MODULE Spec2Model ----------------------------
(***************************************************************************)
(* A model of the nand2tetris tool chain in src/compiler: the scoped       *)
(* symbol tables (symbol_table.py), the Jack tokenizer (tokenizer.py), the *)
(* Jack parser (parser.py), the Jack-to-VM code generator                  *)
(* (code_generator.py) as compiler.py drives it, and the VM translator     *)
(* (vm_translator.py): its command parser, the assembly its CodeGenerator  *)
(* emits and, with the symbols of the assembler (assembler.py) resolved,   *)
(* the run of that assembly on the Hack machine.                           *)
(*                                                                         *)
(* Conventions.  A Python object is a record with a "tag" field naming its *)
(* class; None is the record NoneVal.  A raised exception is the "err"     *)
(* field of an operator's result ("" when nothing was raised); the other   *)
(* fields of such a result are then meaningless.  An identifier, a number  *)
(* literal and a string literal are sequences of one-character strings, so *)
(* that formatting and pattern matching are computed, not assumed.         *)
(***************************************************************************)
EXTENDS Integers, Sequences, FiniteSets, TLC

VARIABLES
    tables,     \* SymbolTables._tables: a sequence of tables, Head = _tables[0]
    addLog,     \* ghost: per live table, the add() calls made on it, in order
    nOps,       \* ghost: number of symbol-table operations performed so far
    symRes,     \* the last symbol-table operation, its arguments and outcome
    toks,       \* compiler.py: the tokens of one .jack file, as the tokenizer yields them
    pc,         \* the position of the run in compiler.py and CodeGenerator.generate
    ast,        \* the outcome of Parser(tokens).parse_class(): [err, val]
    gen,        \* the CodeGenerator object
    pos,        \* <<i, j>>: the subroutine and the statement the generator is at
    last,       \* the last generate_statement call: its arguments and outcome
    out,        \* [err, code]: the exception that ended the run, the lines emitted so far
    vm,         \* the machine that executes emitted code; in SpecAsm also the VM translator
    tk,         \* tokenizer.py: the lines of a file and the state of gen_tokens_for_lines
    hack        \* assembler.py: the lines of a file and the state of the two passes

symVars == <<tables, addLog, nOps, symRes>>
genVars == <<toks, pc, ast, gen, pos, last, out, tk, hack>>
vars == <<tables, addLog, nOps, symRes, toks, pc, ast, gen, pos, last, out, vm, tk, hack>>

\* ------------------------------------------------------------------------
\* Bounds of the model
\* ------------------------------------------------------------------------
MaxOps == 5
MaxTables == 2
MaxStmts == 2
MaxCell == 2
MaxPieces == 5

\* the VM translator: the arguments of a call and the locals of a function
\* (each from 0), the instructions a program runs for, the top of the RAM
MaxArgs == 2
MaxLocals == 2
MaxSteps == 400
RamTop == 320

\* the parser taken alone: the tokens of a stream, the calls made on it
MaxToks == 3
MaxCalls == 4

NoErr == ""
NoneVal == [tag |-> "None"]

\* ------------------------------------------------------------------------
\* symbol_table.py
\* ------------------------------------------------------------------------
Kind == {"FIELD", "STATIC", "LOCAL", "ARGUMENT"}

TypeInt == [tag |-> "TypeInt", value |-> <<>>]
TypeBool == [tag |-> "TypeBool", value |-> <<>>]
TypeChar == [tag |-> "TypeChar", value |-> <<>>]
TypeClass(v) == [tag |-> "TypeClass", value |-> v]

Symbol(name, type_, kind, index) ==
    [name |-> name, type_ |-> type_, kind |-> kind, index |-> index]

\* max(iterable, default=d) over a set of integers
MaxOf(S, d) == IF S = {} THEN d ELSE CHOOSE m \in S : \A n \in S : n <= m

\* `name in self._table`: a table is the sequence of its symbols in insertion
\* order (a Python dict keeps insertion order and holds a name once)
InTable(table, name) == \E i \in 1..Len(table) : table[i].name = name

\* the mutant of SymbolTable_add that numbers a symbol by the size of the
\* table instead of per kind
SymbolTable_add_anyKind(table, name, type_, kind) ==
    IF InTable(table, name)
    THEN [err |-> "SymbolTableError", table |-> table]
    ELSE [err |-> NoErr,
          table |-> Append(table, Symbol(name, type_, kind, Len(table)))]

\* the mutant of SymbolTable_add that overwrites an existing entry instead of
\* raising
SymbolTable_add_overwrite(table, name, type_, kind) ==
    LET index == MaxOf({table[i].index : i \in {j \in 1..Len(table) : table[j].kind = kind}}, -1) + 1
    IN  IF InTable(table, name)
        THEN [err |-> "SymbolTableError",
              table |-> [i \in 1..Len(table) |->
                            IF table[i].name = name
                            THEN Symbol(name, type_, kind, index)
                            ELSE table[i]]]
        ELSE [err |-> NoErr,
              table |-> Append(table, Symbol(name, type_, kind, index))]

\* SymbolTable.add
SymbolTable_add(table, name, type_, kind) ==
    LET index == MaxOf({table[i].index : i \in {j \in 1..Len(table) : table[j].kind = kind}}, -1) + 1
    IN  IF InTable(table, name)
        THEN [err |-> "SymbolTableError", table |-> table]
        ELSE [err |-> NoErr,
              table |-> Append(table, Symbol(name, type_, kind, index))]

\* SymbolTable.lookup
SymbolTable_lookup(table, name) ==
    IF InTable(table, name)
    THEN [err |-> NoErr,
          symbol |-> table[CHOOSE i \in 1..Len(table) : table[i].name = name]]
    ELSE [err |-> "SymbolNotFoundError", symbol |-> NoneVal]

\* SymbolTables.push_new: deque.appendleft of an empty table
SymbolTables_push_new(tabs) == <<<<>>>> \o tabs

\* the mutant of SymbolTables_pop that leaves the popped table in place
SymbolTables_pop_keep(tabs) == [err |-> NoErr, tables |-> tabs]

\* SymbolTables.pop: deque.popleft, IndexError on an empty deque
SymbolTables_pop(tabs) ==
    IF tabs = <<>>
    THEN [err |-> "IndexError", tables |-> tabs]
    ELSE [err |-> NoErr, tables |-> Tail(tabs)]

\* SymbolTables.add: the add goes to _tables[0]; the IndexError of an empty
\* deque is turned into SymbolTableError
SymbolTables_add(tabs, name, type_, kind) ==
    IF tabs = <<>>
    THEN [err |-> "SymbolTableError", tables |-> tabs]
    ELSE LET r == SymbolTable_add(Head(tabs), name, type_, kind)
         IN  [err |-> r.err, tables |-> <<r.table>> \o Tail(tabs)]

RECURSIVE SymbolTables_lookup(_, _)

\* the mutant of SymbolTables_lookup that consults _tables[0] only
SymbolTables_lookup_headOnly(tabs, name) ==
    IF tabs = <<>>
    THEN [err |-> "SymbolNotFoundError", symbol |-> NoneVal]
    ELSE SymbolTable_lookup(Head(tabs), name)

\* the mutant of SymbolTables_lookup that tries the outermost table first
SymbolTables_lookup_outerFirst(tabs, name) ==
    IF tabs = <<>>
    THEN [err |-> "SymbolNotFoundError", symbol |-> NoneVal]
    ELSE LET r == SymbolTable_lookup(tabs[Len(tabs)], name)
         IN  IF r.err = NoErr THEN r
             ELSE SymbolTables_lookup(SubSeq(tabs, 1, Len(tabs) - 1), name)

\* SymbolTables.lookup: the tables are tried from _tables[0] on
SymbolTables_lookup(tabs, name) ==
    IF tabs = <<>>
    THEN [err |-> "SymbolNotFoundError", symbol |-> NoneVal]
    ELSE LET r == SymbolTable_lookup(Head(tabs), name)
         IN  IF r.err = NoErr THEN r ELSE SymbolTables_lookup(Tail(tabs), name)

\* SymbolTables.__iter__: the symbols of all tables, _tables[0] first
RECURSIVE SymbolTables_iter(_)
SymbolTables_iter(tabs) ==
    IF tabs = <<>> THEN <<>> ELSE Head(tabs) \o SymbolTables_iter(Tail(tabs))

\* ------------------------------------------------------------------------
\* tokenizer.py: the five token classes.  A Keyword or Symbol value is one of
\* the fixed words of VALID_KEYWORDS and VALID_SYMBOLS and is written as a
\* string; the value of an Identifier, IntegerConstant or StringConstant is
\* the matched text, a sequence of characters.  line_num, which only feeds
\* error messages, is left out.
\* ------------------------------------------------------------------------
KeywordTok(v) == [tag |-> "Keyword", value |-> v]
SymbolTok(v) == [tag |-> "Symbol", value |-> v]
IdentifierTok(v) == [tag |-> "Identifier", value |-> v]
IntegerConstantTok(v) == [tag |-> "IntegerConstant", value |-> v]
StringConstantTok(v) == [tag |-> "StringConstant", value |-> v]

\* a Python list where the code may hold a node instead, and a Python tuple
PyList(items) == [tag |-> "list", items |-> items]
PyTuple(items) == [tag |-> "tuple", items |-> items]

\* ------------------------------------------------------------------------
\* parser.py: the AST node classes (line_num left out)
\* ------------------------------------------------------------------------
ClassVarDec(modifier, type_, name) ==
    [tag |-> "ClassVarDec", modifier |-> modifier, type_ |-> type_, name |-> name]
ParameterList(parameters) == [tag |-> "ParameterList", parameters |-> parameters]
VarDec(type_, name) == [tag |-> "VarDec", type_ |-> type_, name |-> name]
ConstantTerm(value) == [tag |-> "ConstantTerm", value |-> value]
VarTerm(name) == [tag |-> "VarTerm", name |-> name]
VarIndexTerm(name, index) == [tag |-> "VarIndexTerm", name |-> name, index |-> index]
SubroutineCallTerm(qualifier, name, arguments) ==
    [tag |-> "SubroutineCallTerm", qualifier |-> qualifier, name |-> name,
     arguments |-> arguments]
ParenTerm(expression) == [tag |-> "ParenTerm", expression |-> expression]
UnaryOpTerm(op, term) == [tag |-> "UnaryOpTerm", op |-> op, term |-> term]
Expression(term, tail) == [tag |-> "Expression", term |-> term, tail |-> tail]
Statements(statements) == [tag |-> "Statements", statements |-> statements]
LetStatement(name, idx_expression, expression) ==
    [tag |-> "LetStatement", name |-> name, idx_expression |-> idx_expression,
     expression |-> expression]
IfStatement(condition, true_statements, false_statements) ==
    [tag |-> "IfStatement", condition |-> condition,
     true_statements |-> true_statements, false_statements |-> false_statements]
WhileStatement(condition, body) ==
    [tag |-> "WhileStatement", condition |-> condition, body |-> body]
DoStatement(term) == [tag |-> "DoStatement", term |-> term]
ReturnStatement(expression) == [tag |-> "ReturnStatement", expression |-> expression]
SubroutineBody(var_decs, statements) ==
    [tag |-> "SubroutineBody", var_decs |-> var_decs, statements |-> statements]
SubroutineDec(modifier, type_, name, parameters, body) ==
    [tag |-> "SubroutineDec", modifier |-> modifier, type_ |-> type_, name |-> name,
     parameters |-> parameters, body |-> body]
Class(name, class_var_decs, subroutine_decs) ==
    [tag |-> "Class", name |-> name, class_var_decs |-> class_var_decs,
     subroutine_decs |-> subroutine_decs]

\* ------------------------------------------------------------------------
\* parser.py: class Parser.  The parser object p is [tokens, look_ahead]: the
\* tokens the iterator has still to yield and the look-ahead deque.  Every
\* method returns [err, val, p]: the exception raised (if any), the value
\* returned and the parser object afterwards.
\* ------------------------------------------------------------------------
Parser(tokens) == [tokens |-> tokens, look_ahead |-> <<>>]

POk(val, p) == [err |-> NoErr, val |-> val, p |-> p]
PErr(err, p) == [err |-> err, val |-> NoneVal, p |-> p]

\* Bind([x \in {e} |-> body]) is body with x the value of e, computed once:
\* the assignment `x = e` followed by the statements of body.  Where e is a
\* call that may raise, body starts with `IF x.err # NoErr THEN x`, the
\* propagation of the exception.
Bind(f) == f[CHOOSE x \in DOMAIN f : TRUE]

\* Parser._is_type
is_type(tok, type_, values) ==
    LET correct_type == tok.tag = type_
    IN  IF values # {} THEN correct_type /\ tok.value \in values ELSE correct_type

\* Parser._next: next(self.tokens) raises StopIteration at the end of the input
P_next(p) ==
    IF p.look_ahead # <<>>
    THEN POk(Head(p.look_ahead), [p EXCEPT !.look_ahead = Tail(@)])
    ELSE IF p.tokens = <<>>
         THEN PErr("StopIteration", p)
         ELSE POk(Head(p.tokens), [p EXCEPT !.tokens = Tail(@)])

\* a _peek that hands the token on without keeping it
P_peek_consuming(p) == P_next(p)

\* Parser._peek
P_peek(p) ==
    IF p.look_ahead # <<>>
    THEN POk(p.look_ahead[1], p)
    ELSE Bind([n \in {P_next(p)} |-> IF n.err # NoErr THEN n ELSE
             POk(n.val, [n.p EXCEPT !.look_ahead = Append(@, n.val)])])

\* Parser._parse_next
parse_next(p, type_, values) ==
    Bind([k \in {P_peek(p)} |-> IF k.err # NoErr THEN k ELSE
        IF ~is_type(k.val, type_, values) THEN PErr("ParseError", k.p)
        ELSE POk(k.val, P_next(k.p).p)])

\* Parser.parse_type: a ParseError of the first alternative is caught
parse_type(p) ==
    Bind([r \in {parse_next(p, "Keyword", {"int", "char", "boolean"})} |->
          IF r.err = "ParseError" THEN parse_next(r.p, "Identifier", {}) ELSE r])

\* Parser.parse_type_or_void
parse_type_or_void(p) ==
    Bind([r \in {parse_next(p, "Keyword", {"void"})} |->
          IF r.err = "ParseError" THEN parse_type(r.p) ELSE r])

\* Parser._parse_var_identifier_list: the while loop, var_names so far
RECURSIVE parse_var_identifier_list_loop(_, _)
parse_var_identifier_list_loop(p, var_names) ==
    Bind([k \in {P_peek(p)} |-> IF k.err # NoErr THEN k ELSE
        IF is_type(k.val, "Symbol", {";"}) THEN POk(var_names, k.p)
        ELSE Bind([c \in {parse_next(k.p, "Symbol", {","})} |->
              IF c.err # NoErr THEN c ELSE
             Bind([n \in {parse_next(c.p, "Identifier", {})} |->
                   IF n.err # NoErr THEN n ELSE
                 parse_var_identifier_list_loop(n.p, Append(var_names, n.val))])])])

\* Parser._parse_var_identifier_list
parse_var_identifier_list(p) ==
    Bind([first \in {parse_next(p, "Identifier", {})} |->
          IF first.err # NoErr THEN first ELSE
    Bind([names \in {parse_var_identifier_list_loop(first.p, <<first.val>>)} |->
          IF names.err # NoErr THEN names ELSE
    Bind([semi \in {parse_next(names.p, "Symbol", {";"})} |->
          IF semi.err # NoErr THEN semi ELSE
        POk(names.val, semi.p)])])])

\* Parser.parse_class_var_decs
parse_class_var_decs(p) ==
    Bind([modifier \in {parse_next(p, "Keyword", {"static", "field"})} |->
          IF modifier.err # NoErr THEN modifier ELSE
    Bind([type_ \in {parse_type(modifier.p)} |->
          IF type_.err # NoErr THEN type_ ELSE
    Bind([var_names \in {parse_var_identifier_list(type_.p)} |->
          IF var_names.err # NoErr THEN var_names ELSE
        POk([i \in 1..Len(var_names.val) |->
                ClassVarDec(modifier.val, type_.val, var_names.val[i])],
            var_names.p)])])])

\* Parser.parse_var_decs
parse_var_decs(p) ==
    Bind([kw \in {parse_next(p, "Keyword", {"var"})} |->
          IF kw.err # NoErr THEN kw ELSE
    Bind([type_ \in {parse_type(kw.p)} |-> IF type_.err # NoErr THEN type_ ELSE
    Bind([var_names \in {parse_var_identifier_list(type_.p)} |->
          IF var_names.err # NoErr THEN var_names ELSE
        POk([i \in 1..Len(var_names.val) |-> VarDec(type_.val, var_names.val[i])],
            var_names.p)])])])

RECURSIVE parse_statement(_)
RECURSIVE parse_statements_loop(_, _)
RECURSIVE parse_statements(_)
RECURSIVE parse_let_statement(_)
RECURSIVE parse_if_statement(_)
RECURSIVE parse_while_statement(_)
RECURSIVE parse_do_statement(_)
RECURSIVE parse_return_statement(_)
RECURSIVE parse_expression(_)
RECURSIVE parse_term(_)
RECURSIVE parse_term_with_identifier(_)
RECURSIVE parse_subroutine_call(_, _)
RECURSIVE parse_argument_list_loop(_, _)
RECURSIVE parse_argument_list(_)
RECURSIVE parse_expression_tail_loop(_, _)

\* Parser.parse_statement
parse_statement(p) ==
    Bind([k \in {P_peek(p)} |-> IF k.err # NoErr THEN k ELSE
        IF is_type(k.val, "Keyword", {"let"}) THEN parse_let_statement(k.p)
        ELSE IF is_type(k.val, "Keyword", {"if"}) THEN parse_if_statement(k.p)
        ELSE IF is_type(k.val, "Keyword", {"while"}) THEN parse_while_statement(k.p)
        ELSE IF is_type(k.val, "Keyword", {"do"}) THEN parse_do_statement(k.p)
        ELSE IF is_type(k.val, "Keyword", {"return"}) THEN parse_return_statement(k.p)
        ELSE PErr("ParseError", k.p)])

\* Parser.parse_statements: the while loop, statements so far
parse_statements_loop(p, statements) ==
    Bind([k \in {P_peek(p)} |-> IF k.err # NoErr THEN k ELSE
        IF is_type(k.val, "Symbol", {"}"}) THEN POk(statements, k.p)
        ELSE Bind([s \in {parse_statement(k.p)} |-> IF s.err # NoErr THEN s ELSE
                 parse_statements_loop(s.p, Append(statements, s.val))])])

\* Parser.parse_statements
parse_statements(p) ==
    Bind([open \in {parse_next(p, "Symbol", {"{"})} |->
          IF open.err # NoErr THEN open ELSE
    Bind([body \in {parse_statements_loop(open.p, <<>>)} |->
          IF body.err # NoErr THEN body ELSE
    Bind([close \in {parse_next(body.p, "Symbol", {"}"})} |->
          IF close.err # NoErr THEN close ELSE
        POk(Statements(body.val), close.p)])])])

\* Parser.parse_let_statement, lines 335-341: the index expression, None when
\* no "[" follows the name
parse_let_index(p) ==
    Bind([k \in {P_peek(p)} |-> IF k.err # NoErr THEN k ELSE
        IF is_type(k.val, "Symbol", {"["})
        THEN Bind([e \in {parse_expression(P_next(k.p).p)} |->
              IF e.err # NoErr THEN e ELSE
             Bind([close \in {parse_next(e.p, "Symbol", {"]"})} |->
                   IF close.err # NoErr THEN close ELSE
                 POk(e.val, close.p)])])
        ELSE POk(NoneVal, k.p)])

\* Parser.parse_let_statement
parse_let_statement(p) ==
    Bind([kw \in {parse_next(p, "Keyword", {"let"})} |->
          IF kw.err # NoErr THEN kw ELSE
    Bind([var_name \in {parse_next(kw.p, "Identifier", {})} |->
          IF var_name.err # NoErr THEN var_name ELSE
    Bind([idx \in {parse_let_index(var_name.p)} |-> IF idx.err # NoErr THEN idx ELSE
    Bind([eq \in {parse_next(idx.p, "Symbol", {"="})} |->
          IF eq.err # NoErr THEN eq ELSE
    Bind([exp \in {parse_expression(eq.p)} |-> IF exp.err # NoErr THEN exp ELSE
    Bind([semi \in {parse_next(exp.p, "Symbol", {";"})} |->
          IF semi.err # NoErr THEN semi ELSE
        POk(LetStatement(var_name.val, idx.val, exp.val), semi.p)])])])])])])

\* Parser.parse_if_statement, lines 357-363: without an else,
\* false_statements is the list [] and not a Statements node
parse_else(p) ==
    Bind([k \in {P_peek(p)} |-> IF k.err # NoErr THEN k ELSE
        IF is_type(k.val, "Keyword", {"else"})
        THEN parse_statements(P_next(k.p).p)
        ELSE POk(PyList(<<>>), k.p)])

\* Parser.parse_if_statement
parse_if_statement(p) ==
    Bind([kw \in {parse_next(p, "Keyword", {"if"})} |->
          IF kw.err # NoErr THEN kw ELSE
    Bind([open \in {parse_next(kw.p, "Symbol", {"("})} |->
          IF open.err # NoErr THEN open ELSE
    Bind([condition \in {parse_expression(open.p)} |->
          IF condition.err # NoErr THEN condition ELSE
    Bind([close \in {parse_next(condition.p, "Symbol", {")"})} |->
          IF close.err # NoErr THEN close ELSE
    Bind([true_statements \in {parse_statements(close.p)} |->
          IF true_statements.err # NoErr THEN true_statements ELSE
    Bind([false_statements \in {parse_else(true_statements.p)} |->
          IF false_statements.err # NoErr THEN false_statements ELSE
        POk(IfStatement(condition.val, true_statements.val, false_statements.val),
            false_statements.p)])])])])])])

\* Parser.parse_while_statement
parse_while_statement(p) ==
    Bind([kw \in {parse_next(p, "Keyword", {"while"})} |->
          IF kw.err # NoErr THEN kw ELSE
    Bind([open \in {parse_next(kw.p, "Symbol", {"("})} |->
          IF open.err # NoErr THEN open ELSE
    Bind([condition \in {parse_expression(open.p)} |->
          IF condition.err # NoErr THEN condition ELSE
    Bind([close \in {parse_next(condition.p, "Symbol", {")"})} |->
          IF close.err # NoErr THEN close ELSE
    Bind([body \in {parse_statements(close.p)} |->
          IF body.err # NoErr THEN body ELSE
        POk(WhileStatement(condition.val, body.val), body.p)])])])])])

\* Parser.parse_do_statement
parse_do_statement(p) ==
    Bind([kw \in {parse_next(p, "Keyword", {"do"})} |->
          IF kw.err # NoErr THEN kw ELSE
    Bind([identifier \in {parse_next(kw.p, "Identifier", {})} |->
          IF identifier.err # NoErr THEN identifier ELSE
    Bind([subroutine_call_term \in {parse_subroutine_call(identifier.p, identifier.val)} |->
          IF subroutine_call_term.err # NoErr THEN subroutine_call_term ELSE
    Bind([semi \in {parse_next(subroutine_call_term.p, "Symbol", {";"})} |->
          IF semi.err # NoErr THEN semi ELSE
        POk(DoStatement(subroutine_call_term.val), semi.p)])])])])

\* Parser.parse_return_statement, lines 389-393: the expression, None when
\* ";" follows
parse_return_value(p) ==
    Bind([k \in {P_peek(p)} |-> IF k.err # NoErr THEN k ELSE
        IF is_type(k.val, "Symbol", {";"}) THEN POk(NoneVal, k.p)
        ELSE parse_expression(k.p)])

\* Parser.parse_return_statement
parse_return_statement(p) ==
    Bind([kw \in {parse_next(p, "Keyword", {"return"})} |->
          IF kw.err # NoErr THEN kw ELSE
    Bind([expression \in {parse_return_value(kw.p)} |->
          IF expression.err # NoErr THEN expression ELSE
    Bind([semi \in {parse_next(expression.p, "Symbol", {";"})} |->
          IF semi.err # NoErr THEN semi ELSE
        POk(ReturnStatement(expression.val), semi.p)])])])

\* Parser._parse_expression_tail: the while loop, tail so far
parse_expression_tail_loop(p, tail) ==
    Bind([k \in {P_peek(p)} |-> IF k.err # NoErr THEN k ELSE
        IF ~is_type(k.val, "Symbol", {"+", "-", "*", "/", "&", "|", "<", ">", "="})
        THEN POk(tail, k.p)
        ELSE Bind([term \in {parse_term(P_next(k.p).p)} |->
              IF term.err # NoErr THEN term ELSE
                 parse_expression_tail_loop(term.p,
                     Append(tail, PyTuple(<<k.val, term.val>>)))])])

\* Parser.parse_expression
parse_expression(p) ==
    Bind([term \in {parse_term(p)} |-> IF term.err # NoErr THEN term ELSE
    Bind([tail \in {parse_expression_tail_loop(term.p, <<>>)} |->
          IF tail.err # NoErr THEN tail ELSE
        POk(Expression(term.val, tail.val), tail.p)])])

\* Parser.parse_term
parse_term(p) ==
    Bind([k \in {P_peek(p)} |-> IF k.err # NoErr THEN k ELSE
        IF is_type(k.val, "IntegerConstant", {})
        THEN POk(ConstantTerm(k.val), P_next(k.p).p)
        ELSE IF is_type(k.val, "StringConstant", {})
        THEN POk(ConstantTerm(k.val), P_next(k.p).p)
        ELSE IF is_type(k.val, "Keyword", {"true", "false", "null", "this"})
        THEN POk(ConstantTerm(k.val), P_next(k.p).p)
        ELSE IF is_type(k.val, "Identifier", {}) THEN parse_term_with_identifier(k.p)
        ELSE IF is_type(k.val, "Symbol", {"("})
        THEN Bind([exp \in {parse_expression(P_next(k.p).p)} |->
              IF exp.err # NoErr THEN exp ELSE
             Bind([close \in {parse_next(exp.p, "Symbol", {")"})} |->
                   IF close.err # NoErr THEN close ELSE
                 POk(ParenTerm(exp.val), close.p)])])
        ELSE IF is_type(k.val, "Symbol", {"-", "~"})
        THEN Bind([subterm \in {parse_term(P_next(k.p).p)} |->
              IF subterm.err # NoErr THEN subterm ELSE
                 POk(UnaryOpTerm(k.val, subterm.val), subterm.p)])
        ELSE PErr("ParseError", k.p)])

\* Parser._parse_term_with_identifier
parse_term_with_identifier(p) ==
    Bind([ident \in {parse_next(p, "Identifier", {})} |->
          IF ident.err # NoErr THEN ident ELSE
    Bind([k \in {P_peek(ident.p)} |-> IF k.err # NoErr THEN k ELSE
        IF is_type(k.val, "Symbol", {"["})
        THEN Bind([index \in {parse_expression(P_next(k.p).p)} |->
              IF index.err # NoErr THEN index ELSE
             Bind([close \in {parse_next(index.p, "Symbol", {"]"})} |->
                   IF close.err # NoErr THEN close ELSE
                 POk(VarIndexTerm(ident.val, index.val), close.p)])])
        ELSE IF is_type(k.val, "Symbol", {"(", "."})
        THEN parse_subroutine_call(k.p, ident.val)
        ELSE POk(VarTerm(ident.val), k.p)])])

\* Parser._parse_subroutine_call
parse_subroutine_call(p, identifier) ==
    Bind([k \in {P_peek(p)} |-> IF k.err # NoErr THEN k ELSE
        IF is_type(k.val, "Symbol", {"("})
        THEN Bind([arguments \in {parse_argument_list(k.p)} |->
              IF arguments.err # NoErr THEN arguments ELSE
                 POk(SubroutineCallTerm(NoneVal, identifier, arguments.val),
                     arguments.p)])
        ELSE IF is_type(k.val, "Symbol", {"."})
        THEN Bind([name \in {parse_next(P_next(k.p).p, "Identifier", {})} |->
              IF name.err # NoErr THEN name ELSE
             Bind([arguments \in {parse_argument_list(name.p)} |->
                   IF arguments.err # NoErr THEN arguments ELSE
                 POk(SubroutineCallTerm(identifier, name.val, arguments.val),
                     arguments.p)])])
        ELSE PErr("ParseError", k.p)])

\* Parser._parse_argument_list: the while loop, arguments so far; a comma is
\* skipped where it stands and is not required between two arguments
parse_argument_list_loop(p, arguments) ==
    Bind([k \in {P_peek(p)} |-> IF k.err # NoErr THEN k ELSE
        IF is_type(k.val, "Symbol", {")"}) THEN POk(arguments, k.p)
        ELSE Bind([e \in {parse_expression(IF is_type(k.val, "Symbol", {","})
                                   THEN P_next(k.p).p ELSE k.p)} |->
                                   IF e.err # NoErr THEN e
                                   ELSE parse_argument_list_loop(e.p, Append(arguments, e.val))])])

\* Parser._parse_argument_list
parse_argument_list(p) ==
    Bind([open \in {parse_next(p, "Symbol", {"("})} |->
          IF open.err # NoErr THEN open ELSE
    Bind([arguments \in {parse_argument_list_loop(open.p, <<>>)} |->
          IF arguments.err # NoErr THEN arguments ELSE
    Bind([close \in {parse_next(arguments.p, "Symbol", {")"})} |->
          IF close.err # NoErr THEN close ELSE
        POk(arguments.val, close.p)])])])

\* Parser.parse_subroutine_body: the while loop, var_decs and statements so far
RECURSIVE parse_subroutine_body_loop(_, _, _)
parse_subroutine_body_loop(p, var_decs, statements_list) ==
    Bind([k \in {P_peek(p)} |-> IF k.err # NoErr THEN k ELSE
        IF is_type(k.val, "Symbol", {"}"})
        THEN POk(<<var_decs, statements_list>>, k.p)
        ELSE IF is_type(k.val, "Keyword", {"var"})
        THEN Bind([d \in {parse_var_decs(k.p)} |-> IF d.err # NoErr THEN d ELSE
                 parse_subroutine_body_loop(d.p, var_decs \o d.val, statements_list)])
        ELSE Bind([s \in {parse_statement(k.p)} |-> IF s.err # NoErr THEN s ELSE
                 parse_subroutine_body_loop(s.p, var_decs,
                                            Append(statements_list, s.val))])])

\* Parser.parse_subroutine_body
parse_subroutine_body(p) ==
    Bind([open \in {parse_next(p, "Symbol", {"{"})} |->
          IF open.err # NoErr THEN open ELSE
    Bind([body \in {parse_subroutine_body_loop(open.p, <<>>, <<>>)} |->
          IF body.err # NoErr THEN body ELSE
    Bind([close \in {parse_next(body.p, "Symbol", {"}"})} |->
          IF close.err # NoErr THEN close ELSE
        POk(SubroutineBody(body.val[1], Statements(body.val[2])), close.p)])])])

\* Parser.parse_subroutine_dec: the while loop over the parameters; a comma
\* is skipped where it stands and is not required between two parameters
RECURSIVE parse_parameters_loop(_, _)
parse_parameters_loop(p, parameters) ==
    Bind([k \in {P_peek(p)} |-> IF k.err # NoErr THEN k ELSE
        IF is_type(k.val, "Symbol", {")"}) THEN POk(parameters, k.p)
        ELSE Bind([param_type_ \in {parse_type(IF is_type(k.val, "Symbol", {","})
                             THEN P_next(k.p).p ELSE k.p)} |->
                             IF param_type_.err # NoErr THEN param_type_ ELSE
             Bind([param_name \in {parse_next(param_type_.p, "Identifier", {})} |->
                   IF param_name.err # NoErr THEN param_name ELSE
                 parse_parameters_loop(param_name.p,
                     Append(parameters,
                            PyTuple(<<param_type_.val, param_name.val>>)))])])])

\* Parser.parse_subroutine_dec
parse_subroutine_dec(p) ==
    Bind([modifier \in {parse_next(p, "Keyword", {"constructor", "function", "method"})} |->
          IF modifier.err # NoErr THEN modifier ELSE
    Bind([type_ \in {parse_type_or_void(modifier.p)} |->
          IF type_.err # NoErr THEN type_ ELSE
    Bind([name \in {parse_next(type_.p, "Identifier", {})} |->
          IF name.err # NoErr THEN name ELSE
    Bind([open \in {parse_next(name.p, "Symbol", {"("})} |->
          IF open.err # NoErr THEN open ELSE
    Bind([parameters \in {parse_parameters_loop(open.p, <<>>)} |->
          IF parameters.err # NoErr THEN parameters ELSE
    Bind([close \in {parse_next(parameters.p, "Symbol", {")"})} |->
          IF close.err # NoErr THEN close ELSE
    Bind([body \in {parse_subroutine_body(close.p)} |->
          IF body.err # NoErr THEN body ELSE
        POk(SubroutineDec(modifier.val, type_.val, name.val,
                          ParameterList(parameters.val), body.val),
            body.p)])])])])])])])

\* Parser.parse_class_vars_and_subroutines: the while loop
RECURSIVE parse_class_vars_and_subroutines_loop(_, _, _)
parse_class_vars_and_subroutines_loop(p, class_var_decs, subroutine_decs) ==
    Bind([k \in {P_peek(p)} |-> IF k.err # NoErr THEN k ELSE
        IF is_type(k.val, "Symbol", {"}"})
        THEN POk(<<class_var_decs, subroutine_decs>>, k.p)
        ELSE IF is_type(k.val, "Keyword", {"static", "field"})
        THEN Bind([d \in {parse_class_var_decs(k.p)} |->
              IF d.err # NoErr THEN d ELSE
                 parse_class_vars_and_subroutines_loop(
                     d.p, class_var_decs \o d.val, subroutine_decs)])
        ELSE IF is_type(k.val, "Keyword", {"constructor", "function", "method"})
        THEN Bind([d \in {parse_subroutine_dec(k.p)} |->
              IF d.err # NoErr THEN d ELSE
                 parse_class_vars_and_subroutines_loop(
                     d.p, class_var_decs, Append(subroutine_decs, d.val))])
        ELSE PErr("ParseError", k.p)])

\* Parser.parse_class_vars_and_subroutines
parse_class_vars_and_subroutines(p) ==
    parse_class_vars_and_subroutines_loop(p, <<>>, <<>>)

\* Parser.parse_class
parse_class(p) ==
    Bind([kw \in {parse_next(p, "Keyword", {"class"})} |->
          IF kw.err # NoErr THEN kw ELSE
    Bind([class_name \in {parse_next(kw.p, "Identifier", {})} |->
          IF class_name.err # NoErr THEN class_name ELSE
    Bind([open \in {parse_next(class_name.p, "Symbol", {"{"})} |->
          IF open.err # NoErr THEN open ELSE
    Bind([members \in {parse_class_vars_and_subroutines(open.p)} |->
          IF members.err # NoErr THEN members ELSE
    Bind([close \in {parse_next(members.p, "Symbol", {"}"})} |->
          IF close.err # NoErr THEN close ELSE
        POk(Class(class_name.val, members.val[1], members.val[2]), close.p)])])])])])

\* ------------------------------------------------------------------------
\* Text.  A VM line is the sequence of its blank-separated words: a command
\* or segment word is written as a string, a number or a name is the
\* sequence of its characters; the empty line is <<>>.
\* ------------------------------------------------------------------------
DigitChars == <<"0", "1", "2", "3", "4", "5", "6", "7", "8", "9">>

\* str(n) of an integer n >= 0, as f"{n}" formats it
RECURSIVE Str(_)
Str(n) == IF n < 10 THEN <<DigitChars[n + 1]>>
          ELSE Str(n \div 10) \o <<DigitChars[(n % 10) + 1]>>

\* int(s) of a string of decimal digits
RECURSIVE PyInt(_)
PyInt(s) ==
    IF s = <<>> THEN 0
    ELSE 10 * PyInt(SubSeq(s, 1, Len(s) - 1))
         + (CHOOSE d \in 0..9 : DigitChars[d + 1] = s[Len(s)])

\* ord(c) for the characters the string literals of the model are made of
Ord(c) == CASE c = "a" -> 97 [] c = "b" -> 98 [] c = "?" -> 63
            [] c = ":" -> 58 [] c = " " -> 32

\* hasattr(obj, attr): an object is a record of its attributes
HasAttr(obj, attr) == attr \in DOMAIN obj

\* ------------------------------------------------------------------------
\* code_generator.py: class CodeGenerator.  The generator object g is
\* [uniq_label, cur_class_name, subroutine_type, symbol_tables].  A method
\* returns [err, code, g]: the exception raised (if any), the list of lines
\* returned and the generator object afterwards.
\* ------------------------------------------------------------------------
CodeGenerator ==
    [uniq_label |-> 0, cur_class_name |-> NoneVal, subroutine_type |-> NoneVal,
     symbol_tables |-> <<>>]

GOk(code, g) == [err |-> NoErr, code |-> code, g |-> g]
GErr(err, g) == [err |-> err, code |-> <<>>, g |-> g]

\* CodeGenerator._gen_class_var_kind
gen_class_var_kind(token) ==
    IF token.value = "static" THEN [err |-> NoErr, kind |-> "STATIC"]
    ELSE IF token.value = "field" THEN [err |-> NoErr, kind |-> "FIELD"]
    ELSE [err |-> "RuntimeError", kind |-> "FIELD"]

\* CodeGenerator._gen_type; the value of an Identifier is never a reserved
\* word (tokenizer.py:104-107), so only a Keyword can equal "int"
gen_type(token) ==
    IF token.tag = "Keyword" /\ token.value = "int" THEN TypeInt
    ELSE IF token.tag = "Keyword" /\ token.value = "char" THEN TypeChar
    ELSE IF token.tag = "Keyword" /\ token.value = "boolean" THEN TypeBool
    ELSE TypeClass(token.value)

\* CodeGenerator._gen_memory_segment
gen_memory_segment(kind) ==
    IF kind = "FIELD" THEN [err |-> NoErr, seg |-> "this"]
    ELSE IF kind = "STATIC" THEN [err |-> NoErr, seg |-> "static"]
    ELSE IF kind = "LOCAL" THEN [err |-> NoErr, seg |-> "local"]
    ELSE IF kind = "ARGUMENT" THEN [err |-> NoErr, seg |-> "argument"]
    ELSE [err |-> "CodeGeneratorError", seg |-> ""]

Name_Math_multiply == <<"M", "a", "t", "h", ".", "m", "u", "l", "t", "i", "p", "l", "y">>
Name_Math_divide == <<"M", "a", "t", "h", ".", "d", "i", "v", "i", "d", "e">>
Name_String_new == <<"S", "t", "r", "i", "n", "g", ".", "n", "e", "w">>
Name_String_appendChar ==
    <<"S", "t", "r", "i", "n", "g", ".", "a", "p", "p", "e", "n", "d", "C", "h", "a", "r">>
Name_Memory_alloc == <<"M", "e", "m", "o", "r", "y", ".", "a", "l", "l", "o", "c">>

\* CodeGenerator._gen_op
gen_op(op) ==
    IF op.value = "+" THEN [err |-> NoErr, code |-> <<<<"add">>>>]
    ELSE IF op.value = "-" THEN [err |-> NoErr, code |-> <<<<"sub">>>>]
    ELSE IF op.value = "*"
         THEN [err |-> NoErr, code |-> <<<<"call", Name_Math_multiply, Str(2)>>>>]
    ELSE IF op.value = "/"
         THEN [err |-> NoErr, code |-> <<<<"call", Name_Math_divide, Str(2)>>>>]
    ELSE IF op.value = "&" THEN [err |-> NoErr, code |-> <<<<"and">>>>]
    ELSE IF op.value = "|" THEN [err |-> NoErr, code |-> <<<<"or">>>>]
    ELSE IF op.value = "<" THEN [err |-> NoErr, code |-> <<<<"lt">>>>]
    ELSE IF op.value = ">" THEN [err |-> NoErr, code |-> <<<<"gt">>>>]
    ELSE IF op.value = "=" THEN [err |-> NoErr, code |-> <<<<"eq">>>>]
    ELSE [err |-> "CodeGeneratorError", code |-> <<>>]

\* the code of a string constant after String.new: two lines per character
RECURSIVE gen_string_chars(_)
gen_string_chars(s) ==
    IF s = <<>> THEN <<>>
    ELSE <<<<"push", "constant", Str(Ord(Head(s)))>>,
           <<"call", Name_String_appendChar, Str(2)>>>>
         \o gen_string_chars(Tail(s))

\* an exception raised by a call that does not return the generator object
Raised(r, g) == IF r.err # NoErr THEN GErr(r.err, g) ELSE r

RECURSIVE generate_expression(_, _)
RECURSIVE generate_expression_terms(_, _)
RECURSIVE generate_expression_ops(_)
RECURSIVE generate_term(_, _)
RECURSIVE gen_subroutine_call(_, _)
RECURSIVE gen_arguments(_, _)

\* CodeGenerator.generate_expression, the for loop: the code of the terms of
\* the tail, in order
generate_expression_terms(g, tail) ==
    IF tail = <<>> THEN GOk(<<>>, g)
    ELSE Bind([t \in {generate_term(g, Head(tail).items[2])} |->
          IF t.err # NoErr THEN t ELSE
         Bind([rest \in {generate_expression_terms(g, Tail(tail))} |->
               IF rest.err # NoErr THEN rest ELSE
             GOk(t.code \o rest.code, g)])])

\* the mutant of generate_expression_ops that emits the operators in source
\* order (a queue instead of a stack)
generate_expression_ops_fifo(op_stack) ==
    IF op_stack = <<>> THEN [err |-> NoErr, code |-> <<>>]
    ELSE Bind([o \in {gen_op(Head(op_stack))} |-> IF o.err # NoErr THEN o ELSE
         Bind([rest \in {generate_expression_ops(Tail(op_stack))} |->
               IF rest.err # NoErr THEN rest ELSE
             [err |-> NoErr, code |-> o.code \o rest.code]])])

\* CodeGenerator.generate_expression, the while loop: op_stack.pop() takes
\* the operators last pushed first
generate_expression_ops(op_stack) ==
    IF op_stack = <<>> THEN [err |-> NoErr, code |-> <<>>]
    ELSE Bind([o \in {gen_op(op_stack[Len(op_stack)])} |->
          IF o.err # NoErr THEN o ELSE
         Bind([rest \in {generate_expression_ops(SubSeq(op_stack, 1, Len(op_stack) - 1))} |->
               IF rest.err # NoErr
               THEN rest ELSE [err |-> NoErr, code |-> o.code \o rest.code]])])

\* CodeGenerator.generate_expression
generate_expression(g, exp) ==
    Bind([head \in {generate_term(g, exp.term)} |->
          IF head.err # NoErr THEN head ELSE
    Bind([terms \in {generate_expression_terms(g, exp.tail)} |->
          IF terms.err # NoErr THEN terms ELSE
    Bind([ops \in {Raised(generate_expression_ops(
                    [i \in 1..Len(exp.tail) |-> exp.tail[i].items[1]]), g)} |->
                    IF ops.err # NoErr THEN ops
                    ELSE GOk(head.code \o terms.code \o ops.code, g)])])])

\* CodeGenerator.generate_statement, lines 126-127, and generate_term, lines
\* 218-219 and 222-223: the symbol of a name and its memory segment
gen_symbol(g, name) ==
    Bind([r \in {Raised(SymbolTables_lookup(g.symbol_tables, name), g)} |->
          IF r.err # NoErr THEN r ELSE
    Bind([mem_segment \in {Raised(gen_memory_segment(r.symbol.kind), g)} |->
          IF mem_segment.err # NoErr THEN mem_segment ELSE
        [err |-> NoErr, symbol |-> r.symbol, mem_segment |-> mem_segment.seg]])])

\* CodeGenerator.generate_term.  A VarTerm holds its token in `name`, and the
\* read of term.value raises AttributeError.
generate_term(g, term) ==
    IF term.tag = "ConstantTerm"
    THEN IF term.value.tag = "IntegerConstant"
         THEN GOk(<<<<"push", "constant", Str(PyInt(term.value.value))>>>>, g)
         ELSE IF term.value.tag = "StringConstant"
         THEN GOk(<<<<"push", "constant", Str(Len(term.value.value))>>,
                    <<"call", Name_String_new, Str(1)>>>>
                  \o gen_string_chars(term.value.value), g)
         ELSE IF term.value.tag = "Keyword" /\ term.value.value = "true"
         THEN GOk(<<<<"push", "constant", Str(1)>>, <<"neg">>>>, g)
         ELSE IF term.value.tag = "Keyword" /\ term.value.value \in {"false", "null"}
         THEN GOk(<<<<"push", "constant", Str(0)>>>>, g)
         ELSE IF term.value.tag = "Keyword" /\ term.value.value = "this"
         THEN GOk(<<<<"push", "pointer", Str(0)>>>>, g)
         ELSE GErr("CodeGeneratorError", g)
    ELSE IF term.tag = "VarTerm"
    THEN IF ~HasAttr(term, "value") THEN GErr("AttributeError", g)
         ELSE Bind([s \in {gen_symbol(g, term.value.value)} |->
               IF s.err # NoErr THEN s ELSE
                  GOk(<<<<"push", s.mem_segment, Str(s.symbol.index)>>>>, g)])
    ELSE IF term.tag = "VarIndexTerm"
    THEN Bind([s \in {gen_symbol(g, term.name.value)} |->
          IF s.err # NoErr THEN s ELSE
         Bind([index \in {generate_expression(g, term.index)} |->
               IF index.err # NoErr THEN index ELSE
             GOk(<<<<"push", s.mem_segment, Str(s.symbol.index)>>>>
                 \o index.code
                 \o <<<<"add">>, <<"pop", "pointer", Str(1)>>, <<"push", "that", Str(0)>>>>,
                 g)])])
    ELSE IF term.tag = "SubroutineCallTerm" THEN gen_subroutine_call(g, term)
    ELSE IF term.tag = "ParenTerm" THEN generate_expression(g, term.expression)
    ELSE IF term.tag = "UnaryOpTerm"
    THEN Bind([term_code \in {generate_term(g, term.term)} |->
          IF term_code.err # NoErr THEN term_code ELSE
             IF term.op.value = "-" THEN GOk(term_code.code \o <<<<"neg">>>>, g)
             ELSE IF term.op.value = "~" THEN GOk(term_code.code \o <<<<"not">>>>, g)
             ELSE GErr("CodeGeneratorError", g)])
    ELSE GErr("CodeGeneratorError", g)

\* CodeGenerator._gen_subroutine_call, lines 264-268: the code of the
\* arguments, in order
gen_arguments(g, arguments) ==
    IF arguments = <<>> THEN GOk(<<>>, g)
    ELSE Bind([e \in {generate_expression(g, Head(arguments))} |->
          IF e.err # NoErr THEN e ELSE
         Bind([rest \in {gen_arguments(g, Tail(arguments))} |->
               IF rest.err # NoErr THEN rest ELSE
             GOk(e.code \o rest.code, g)])])

SubroutineCallTarget(subroutine_cls_name, code, num_args, g) ==
    [err |-> NoErr, subroutine_cls_name |-> subroutine_cls_name, code |-> code,
     num_args |-> num_args, g |-> g]

\* CodeGenerator._gen_subroutine_call, lines 241-261: the class the
\* subroutine is called on, the code that pushes the receiver and the number
\* of arguments the receiver counts for
gen_subroutine_call_target(g, term) ==
    IF term.qualifier.tag # "None"
    THEN Bind([e \in {Bind([r \in {Raised(SymbolTables_lookup(g.symbol_tables, term.qualifier.value), g)} |->
          IF r.err # NoErr THEN r ELSE
                        IF r.symbol.type_.tag = "TypeClass"
                        THEN Bind([mem_segment \in {Raised(gen_memory_segment(r.symbol.kind), g)} |->
                              IF mem_segment.err # NoErr THEN mem_segment ELSE
                                      SubroutineCallTarget(
                                          r.symbol.type_.value,
                                          <<<<"push", mem_segment.seg,
                                              Str(r.symbol.index)>>>>,
                                          1, g)])
                        ELSE GErr("CodeGeneratorError", g)])} |->
                        IF e.err = "SymbolNotFoundError" THEN SubroutineCallTarget(term.qualifier.value, <<>>, 0, g)
                        ELSE e])
    ELSE SubroutineCallTarget(g.cur_class_name, <<>>, 0, g)

\* CodeGenerator._gen_subroutine_call
gen_subroutine_call(g, term) ==
    Bind([target \in {gen_subroutine_call_target(g, term)} |->
          IF target.err # NoErr THEN target ELSE
    Bind([arguments \in {gen_arguments(g, term.arguments)} |->
          IF arguments.err # NoErr THEN arguments ELSE
        GOk(target.code \o arguments.code
            \o <<<<"call",
                   target.subroutine_cls_name \o <<".">> \o term.name.value,
                   Str(target.num_args + Len(term.arguments))>>>>,
            g)])])

RECURSIVE generate_statement(_, _, _)
RECURSIVE generate_statements(_, _, _)

\* the for loops of CodeGenerator.generate_statement over the statements of
\* a block
generate_statements(g, statements, is_void_subroutine) ==
    IF statements = <<>> THEN GOk(<<>>, g)
    ELSE Bind([s \in {generate_statement(g, Head(statements), is_void_subroutine)} |->
          IF s.err # NoErr THEN s ELSE
         Bind([rest \in {generate_statements(s.g, Tail(statements), is_void_subroutine)} |->
               IF rest.err # NoErr
               THEN rest ELSE GOk(s.code \o rest.code, rest.g)])])

\* the mutant of generate_let_statement that sets THAT to the target address
\* before the right-hand side is evaluated
generate_let_statement_early(g, statement) ==
    Bind([s \in {gen_symbol(g, statement.name.value)} |->
          IF s.err # NoErr THEN s ELSE
        IF statement.idx_expression.tag # "None"
        THEN Bind([idx \in {generate_expression(g, statement.idx_expression)} |->
                   IF idx.err # NoErr THEN idx ELSE
             Bind([exp \in {generate_expression(g, statement.expression)} |->
                   IF exp.err # NoErr THEN exp ELSE
                 GOk(<<<<"push", s.mem_segment, Str(s.symbol.index)>>>>
                     \o idx.code
                     \o <<<<"add">>, <<"pop", "pointer", Str(1)>>>>
                     \o exp.code
                     \o <<<<"pop", "that", Str(0)>>>>,
                     g)])])
        ELSE Bind([exp \in {generate_expression(g, statement.expression)} |->
                   IF exp.err # NoErr THEN exp ELSE
                 GOk(exp.code \o <<<<"pop", s.mem_segment, Str(s.symbol.index)>>>>, g)])])

\* CodeGenerator.generate_statement, the LetStatement branch
generate_let_statement(g, statement) ==
    Bind([s \in {gen_symbol(g, statement.name.value)} |->
          IF s.err # NoErr THEN s ELSE
        IF statement.idx_expression.tag # "None"
        THEN Bind([idx \in {generate_expression(g, statement.idx_expression)} |->
              IF idx.err # NoErr THEN idx ELSE
             Bind([exp \in {generate_expression(g, statement.expression)} |->
                   IF exp.err # NoErr THEN exp ELSE
                 GOk(<<<<"push", s.mem_segment, Str(s.symbol.index)>>>>
                     \o idx.code
                     \o <<<<"add">>>>
                     \o exp.code
                     \o <<<<"pop", "temp", Str(0)>>, <<"pop", "pointer", Str(1)>>,
                          <<"push", "temp", Str(0)>>, <<"pop", "that", Str(0)>>>>,
                     g)])])
        ELSE Bind([exp \in {generate_expression(g, statement.expression)} |->
              IF exp.err # NoErr THEN exp ELSE
                 GOk(exp.code \o <<<<"pop", s.mem_segment, Str(s.symbol.index)>>>>, g)])])

\* f"IF{uniq_label}.FALSE" and the other labels
Label(prefix, uniq_label, suffix) == prefix \o Str(uniq_label) \o suffix

\* CodeGenerator.generate_statement, the IfStatement branch: the read of
\* false_statements.statements raises AttributeError on a list
generate_if_statement(g, statement, is_void_subroutine, uniq_label) ==
    Bind([condition \in {generate_expression(g, statement.condition)} |->
          IF condition.err # NoErr THEN condition ELSE
    Bind([true_code \in {generate_statements(g, statement.true_statements.statements,
                             is_void_subroutine)} |-> IF true_code.err # NoErr THEN true_code ELSE
        IF ~HasAttr(statement.false_statements, "statements")
        THEN GErr("AttributeError", true_code.g)
        ELSE Bind([false_code \in {generate_statements(true_code.g,
                                      statement.false_statements.statements,
                                      is_void_subroutine)} |->
                                      IF false_code.err # NoErr THEN false_code ELSE
                 GOk(condition.code
                     \o <<<<"not">>,
                          <<"if-goto",
                            Label(<<"I", "F">>, uniq_label, <<".", "F", "A", "L", "S", "E">>)>>>>
                     \o true_code.code
                     \o <<<<"goto", Label(<<"I", "F">>, uniq_label, <<".", "E", "N", "D">>)>>,
                          <<"label",
                            Label(<<"I", "F">>, uniq_label, <<".", "F", "A", "L", "S", "E">>)>>>>
                     \o false_code.code
                     \o <<<<"label", Label(<<"I", "F">>, uniq_label, <<".", "E", "N", "D">>)>>>>,
                     false_code.g)])])])

\* CodeGenerator.generate_statement, the WhileStatement branch
generate_while_statement(g, statement, is_void_subroutine, uniq_label) ==
    Bind([condition \in {generate_expression(g, statement.condition)} |->
          IF condition.err # NoErr THEN condition ELSE
    Bind([body \in {generate_statements(g, statement.body.statements, is_void_subroutine)} |->
          IF body.err # NoErr THEN body ELSE
        GOk(<<<<"label",
                Label(<<"W", "H", "I", "L", "E">>, uniq_label,
                      <<".", "S", "T", "A", "R", "T">>)>>>>
            \o condition.code
            \o <<<<"not">>,
                 <<"if-goto",
                   Label(<<"W", "H", "I", "L", "E">>, uniq_label, <<".", "E", "N", "D">>)>>>>
            \o body.code
            \o <<<<"goto",
                   Label(<<"W", "H", "I", "L", "E">>, uniq_label,
                         <<".", "S", "T", "A", "R", "T">>)>>,
                 <<"label",
                   Label(<<"W", "H", "I", "L", "E">>, uniq_label, <<".", "E", "N", "D">>)>>>>,
            body.g)])])

\* the mutant of generate_return_statement that lets a void subroutine
\* return a value
generate_return_statement_lenient(g, statement, is_void_subroutine) ==
    IF statement.expression.tag # "None"
    THEN Bind([exp \in {generate_expression(g, statement.expression)} |->
          IF exp.err # NoErr THEN exp ELSE
             GOk(exp.code \o <<<<"return">>>>, g)])
    ELSE IF is_void_subroutine
    THEN GOk(<<<<"push", "constant", Str(0)>>, <<"return">>>>, g)
    ELSE GErr("CodeGeneratorError", g)

\* CodeGenerator.generate_statement, the ReturnStatement branch
generate_return_statement(g, statement, is_void_subroutine) ==
    IF is_void_subroutine /\ statement.expression.tag # "None"
    THEN GErr("CodeGeneratorError", g)
    ELSE IF is_void_subroutine
    THEN GOk(<<<<"push", "constant", Str(0)>>, <<"return">>>>, g)
    ELSE IF statement.expression.tag # "None"
    THEN Bind([exp \in {generate_expression(g, statement.expression)} |->
          IF exp.err # NoErr THEN exp ELSE
             GOk(exp.code \o <<<<"return">>>>, g)])
    ELSE GErr("CodeGeneratorError", g)

\* a generate_statement that leaves _uniq_label as it is
NextLabel_same(g) == g

\* CodeGenerator.generate_statement, lines 122-123: every statement, of
\* whatever class, takes the next value of _uniq_label
NextLabel(g) == [g EXCEPT !.uniq_label = @ + 1]

\* CodeGenerator.generate_statement
generate_statement(g, statement, is_void_subroutine) ==
    IF statement.tag = "LetStatement"
    THEN generate_let_statement(NextLabel(g), statement)
    ELSE IF statement.tag = "IfStatement"
    THEN generate_if_statement(NextLabel(g), statement, is_void_subroutine,
                               g.uniq_label)
    ELSE IF statement.tag = "WhileStatement"
    THEN generate_while_statement(NextLabel(g), statement, is_void_subroutine,
                                  g.uniq_label)
    ELSE IF statement.tag = "DoStatement"
    THEN Bind([call \in {gen_subroutine_call(NextLabel(g), statement.term)} |->
          IF call.err # NoErr THEN call ELSE
             GOk(call.code \o <<<<"pop", "temp", Str(0)>>>>, call.g)])
    ELSE IF statement.tag = "ReturnStatement"
    THEN generate_return_statement(NextLabel(g), statement, is_void_subroutine)
    ELSE GErr("CodeGeneratorError", NextLabel(g))

\* CodeGenerator.generate_subroutine, lines 65-68: the parameters are added to
\* the topmost table as ARGUMENT
RECURSIVE add_parameters(_, _)
add_parameters(tabs, parameters) ==
    IF parameters = <<>> THEN [err |-> NoErr, tables |-> tabs]
    ELSE Bind([r \in {SymbolTables_add(tabs, Head(parameters).items[2].value,
                               gen_type(Head(parameters).items[1]), "ARGUMENT")} |->
                               IF r.err # NoErr THEN r
                               ELSE add_parameters(r.tables, Tail(parameters))])

\* CodeGenerator.generate_subroutine, lines 69-72: `for type_, name in
\* dec.body.var_decs` unpacks each element, and a VarDec node is not iterable
RECURSIVE add_var_decs(_, _)
add_var_decs(tabs, var_decs) ==
    IF var_decs = <<>> THEN [err |-> NoErr, tables |-> tabs]
    ELSE IF Head(var_decs).tag # "tuple" THEN [err |-> "TypeError", tables |-> tabs]
    ELSE Bind([r \in {SymbolTables_add(tabs, Head(var_decs).items[2].value,
                               gen_type(Head(var_decs).items[1]), "LOCAL")} |->
                               IF r.err # NoErr THEN r
                               ELSE add_var_decs(r.tables, Tail(var_decs))])

\* CodeGenerator.generate_subroutine, lines 76-86: the code after the
\* function line that sets `this`
subroutine_prologue(g, dec) ==
    IF dec.modifier.value = "method"
    THEN <<<<"push", "argument", Str(0)>>, <<"pop", "pointer", Str(0)>>>>
    ELSE IF dec.modifier.value = "constructor"
    THEN <<<<"push", "constant",
             Str(Cardinality({i \in 1..Len(SymbolTables_iter(g.symbol_tables)) :
                                 SymbolTables_iter(g.symbol_tables)[i].kind = "FIELD"}))>>,
           <<"call", Name_Memory_alloc, Str(1)>>,
           <<"pop", "pointer", Str(0)>>>>
    ELSE <<>>

\* CodeGenerator.generate, lines 48-53: the class variables are added to the
\* topmost table
RECURSIVE add_class_var_decs(_, _)
add_class_var_decs(tabs, class_var_decs) ==
    IF class_var_decs = <<>> THEN [err |-> NoErr, tables |-> tabs]
    ELSE Bind([kind \in {gen_class_var_kind(Head(class_var_decs).modifier)} |->
          IF kind.err # NoErr THEN kind ELSE
         Bind([r \in {SymbolTables_add(tabs, Head(class_var_decs).name.value,
                               gen_type(Head(class_var_decs).type_), kind.kind)} |->
                               IF r.err # NoErr THEN r
                               ELSE add_class_var_decs(r.tables, Tail(class_var_decs))])])

\* ------------------------------------------------------------------------
\* The symbol tables as a state machine: a client calls push_new, pop, add
\* and lookup in any order
\* ------------------------------------------------------------------------
SymNames == {<<"x">>, <<"y">>, <<"z">>}
\* the declarations a client makes: a name and its type (x is declared with
\* either type, so that a redeclaration can differ in type)
SymDecls ==
    {<<<<"x">>, TypeInt>>, <<<<"x">>, TypeClass(<<"B">>)>>,
     <<<<"y">>, TypeInt>>, <<<<"z">>, TypeClass(<<"B">>)>>}

SymOp(op, name, type_, kind, err) ==
    [op |-> op, name |-> name, type_ |-> type_, kind |-> kind, err |-> err]

\* the symbol-table variables of a behaviour that starts with an empty stack
SymStart ==
    /\ tables = <<>>
    /\ addLog = <<>>
    /\ nOps = 0
    /\ symRes = SymOp("init", <<>>, TypeInt, "FIELD", NoErr)

\* the compiler variables of a behaviour in which no file is compiled
GenIdle ==
    /\ toks = <<>>
    /\ pc = "idle"
    /\ ast = NoneVal
    /\ gen = NoneVal
    /\ pos = <<0, 0>>
    /\ last = NoneVal
    /\ out = NoneVal
    /\ vm = NoneVal
    /\ tk = NoneVal
    /\ hack = NoneVal

SymInit == SymStart /\ GenIdle

SymPushNew ==
    /\ nOps < MaxOps
    /\ Len(tables) < MaxTables
    /\ tables' = SymbolTables_push_new(tables)
    /\ addLog' = <<<<>>>> \o addLog
    /\ nOps' = nOps + 1
    /\ symRes' = SymOp("push_new", <<>>, TypeInt, "FIELD", NoErr)
    /\ UNCHANGED <<genVars, vm>>

SymPop ==
    /\ nOps < MaxOps
    /\ LET r == SymbolTables_pop(tables)
       IN  /\ tables' = r.tables
           /\ addLog' = IF r.err = NoErr THEN Tail(addLog) ELSE addLog
           /\ symRes' = SymOp("pop", <<>>, TypeInt, "FIELD", r.err)
    /\ nOps' = nOps + 1
    /\ UNCHANGED <<genVars, vm>>

SymAdd ==
    /\ nOps < MaxOps
    /\ \E decl \in SymDecls, kind \in Kind :
          LET name == decl[1]
              type_ == decl[2]
              r == SymbolTables_add(tables, name, type_, kind)
          IN  /\ tables' = r.tables
              /\ addLog' = IF tables = <<>> THEN addLog
                           ELSE <<Append(Head(addLog), SymOp("add", name, type_, kind, r.err))>>
                                    \o Tail(addLog)
              /\ symRes' = SymOp("add", name, type_, kind, r.err)
    /\ nOps' = nOps + 1
    /\ UNCHANGED <<genVars, vm>>

SymLookup ==
    /\ nOps < MaxOps
    /\ \E name \in SymNames :
          LET r == SymbolTables_lookup(tables, name)
          IN  symRes' = [op |-> "lookup", name |-> name,
                         type_ |-> IF r.err = NoErr THEN r.symbol.type_ ELSE TypeInt,
                         kind |-> IF r.err = NoErr THEN r.symbol.kind ELSE "FIELD",
                         err |-> r.err, symbol |-> r.symbol]
    /\ nOps' = nOps + 1
    /\ UNCHANGED <<tables, addLog>>
    /\ UNCHANGED <<genVars, vm>>

SymNext == SymPushNew \/ SymPop \/ SymAdd \/ SymLookup

SpecSym == SymInit /\ [][SymNext]_vars

\* ------------------------------------------------------------------------
\* Claims about the symbol tables (checked under SpecSym)
\* ------------------------------------------------------------------------

\* the names of the add() calls logged for one table are pairwise distinct
NoRedeclare(log) ==
    \A j, k \in 1..Len(log) : log[j].name = log[k].name => j = k

\* C9: on a table whose add() calls never redeclare a name, lookup(name).index
\* is the number of earlier adds of the same kind on that table, and the
\* indices of each kind are exactly 0..n-1.
C9_IndexCountsEarlierSameKind ==
    \A t \in 1..Len(tables) :
        NoRedeclare(addLog[t]) =>
            /\ \A j \in 1..Len(addLog[t]) :
                  LET r == SymbolTable_lookup(tables[t], addLog[t][j].name)
                  IN  /\ r.err = NoErr
                      /\ r.symbol.index =
                            Cardinality({k \in 1..(j - 1) :
                                            addLog[t][k].kind = addLog[t][j].kind})
            /\ \A kind \in Kind :
                  LET same == {i \in 1..Len(tables[t]) : tables[t][i].kind = kind}
                  IN  /\ {tables[t][i].index : i \in same} = 0..(Cardinality(same) - 1)
                      /\ \A i, k \in same :
                            tables[t][i].index = tables[t][k].index => i = k

\* C9 witness: three adds without redeclaration on one table, two of one kind
\* with an add of another kind between them
C9_Witness ==
    \E t \in 1..Len(tables) :
        /\ NoRedeclare(addLog[t])
        /\ Len(addLog[t]) = 3
        /\ addLog[t][1].kind = addLog[t][3].kind
        /\ addLog[t][1].kind # addLog[t][2].kind
        /\ SymbolTable_lookup(tables[t], addLog[t][3].name).symbol.index = 1

\* C10: an add of a name the topmost table already holds raises
\* SymbolTableError and changes no table; any other add on a non-empty stack
\* succeeds, whatever the outer tables hold, and appends to the topmost table
\* an entry numbered by the entries of its kind that table already holds.
C10_RedeclareRaisesAndKeepsTables ==
    [][(symRes'.op = "add" /\ tables # <<>>) =>
          IF InTable(Head(tables), symRes'.name)
          THEN /\ symRes'.err = "SymbolTableError"
               /\ tables' = tables
          ELSE /\ symRes'.err = NoErr
               /\ Tail(tables') = Tail(tables)
               /\ Head(tables') =
                     Append(Head(tables),
                            Symbol(symRes'.name, symRes'.type_, symRes'.kind,
                                   Cardinality({i \in 1..Len(Head(tables)) :
                                                   Head(tables)[i].kind = symRes'.kind})))
      ]_vars

\* C10 witness: with a name declared in the outer table and then, with
\* success, in the inner one, a further add of it with another kind and type
\* has just failed
C10_Witness ==
    /\ symRes.op = "add"
    /\ symRes.err = "SymbolTableError"
    /\ Len(tables) = 2
    /\ InTable(tables[2], symRes.name)
    /\ LET s == SymbolTable_lookup(tables[1], symRes.name).symbol
       IN  s.kind # symRes.kind /\ s.type_ # symRes.type_


\* ------------------------------------------------------------------------
\* The source files that are compiled: token sequences as
\* gen_tokens_for_lines yields them (compiler.py:45-47)
\* ------------------------------------------------------------------------
Kw(v) == KeywordTok(v)
Sy(v) == SymbolTok(v)
Id(v) == IdentifierTok(v)
Num(v) == IntegerConstantTok(v)
Txt(v) == StringConstantTok(v)

\* a[n]
SrcIndexed(n) == <<Id(<<"a">>), Sy("["), Num(<<n>>), Sy("]")>>

\* let p = 1 * 2 + 3;
SrcLetOps ==
    <<Kw("let"), Id(<<"p">>), Sy("="), Num(<<"1">>), Sy("*"), Num(<<"2">>), Sy("+"),
      Num(<<"3">>), Sy(";")>>
\* let a[1] = a[2] + a[0];
SrcLetArray ==
    <<Kw("let")>> \o SrcIndexed("1") \o <<Sy("=")>> \o SrcIndexed("2") \o <<Sy("+")>>
        \o SrcIndexed("0") \o <<Sy(";")>>
\* let p = p;
SrcLetVar == <<Kw("let"), Id(<<"p">>), Sy("="), Id(<<"p">>), Sy(";")>>
\* do g(4, -a[1]);
SrcDoUnqualified ==
    <<Kw("do"), Id(<<"g">>), Sy("("), Num(<<"4">>), Sy(","), Sy("-")>> \o SrcIndexed("1")
        \o <<Sy(")"), Sy(";")>>
\* do q.m("a");
SrcDoArgument ==
    <<Kw("do"), Id(<<"q">>), Sy("."), Id(<<"m">>), Sy("("), Txt(<<"a">>), Sy(")"), Sy(";")>>
\* do sb.m(7, null);
SrcDoStatic ==
    <<Kw("do"), Id(<<"s", "b">>), Sy("."), Id(<<"m">>), Sy("("), Num(<<"7">>), Sy(","),
      Kw("null"), Sy(")"), Sy(";")>>
\* do B.m(this);
SrcDoClass ==
    <<Kw("do"), Id(<<"B">>), Sy("."), Id(<<"m">>), Sy("("), Kw("this"), Sy(")"), Sy(";")>>
\* do p.m();
SrcDoInt == <<Kw("do"), Id(<<"p">>), Sy("."), Id(<<"m">>), Sy("("), Sy(")"), Sy(";")>>
\* return;
SrcReturn == <<Kw("return"), Sy(";")>>
\* return 1;
SrcReturnValue == <<Kw("return"), Num(<<"1">>), Sy(";")>>
\* if (true) { return; }
SrcIf ==
    <<Kw("if"), Sy("("), Kw("true"), Sy(")"), Sy("{")>> \o SrcReturn \o <<Sy("}")>>
\* if (a[0] < 3) { return 1; } else { return ~(2); }
SrcIfElse ==
    <<Kw("if"), Sy("(")>> \o SrcIndexed("0") \o <<Sy("<"), Num(<<"3">>), Sy(")"), Sy("{")>>
        \o SrcReturnValue
        \o <<Sy("}"), Kw("else"), Sy("{"), Kw("return"), Sy("~"), Sy("("), Num(<<"2">>),
             Sy(")"), Sy(";"), Sy("}")>>
\* while (a[0] < 3) { let a[0] = a[0] + 1; }
SrcWhile ==
    <<Kw("while"), Sy("(")>> \o SrcIndexed("0") \o <<Sy("<"), Num(<<"3">>), Sy(")"), Sy("{"),
        Kw("let")>> \o SrcIndexed("0") \o <<Sy("=")>> \o SrcIndexed("0")
        \o <<Sy("+"), Num(<<"1">>), Sy(";"), Sy("}")>>

SrcStatements ==
    {SrcLetOps, SrcLetArray, SrcLetVar, SrcDoUnqualified, SrcDoArgument, SrcDoStatic,
     SrcDoClass, SrcDoInt, SrcReturn, SrcReturnValue, SrcIf, SrcIfElse, SrcWhile}

\* the bodies of at most n statements
RECURSIVE SrcBodies(_)
SrcBodies(n) ==
    IF n = 0 THEN {<<>>}
    ELSE SrcBodies(n - 1)
         \cup {b \o s : b \in SrcBodies(n - 1), s \in SrcStatements}

\* (B q, int p)
SrcParameters ==
    <<Sy("("), Id(<<"B">>), Id(<<"q">>), Sy(","), Kw("int"), Id(<<"p">>), Sy(")")>>

\* function void f(B q, int p), method int f(B q, int p) and
\* constructor A f(B q, int p)
SrcHeaders ==
    {<<Kw("function"), Kw("void"), Id(<<"f">>)>> \o SrcParameters,
     <<Kw("method"), Kw("int"), Id(<<"f">>)>> \o SrcParameters,
     <<Kw("constructor"), Id(<<"A">>), Id(<<"f">>)>> \o SrcParameters}

\* field int q, r; field Array a; static B sb;
SrcClassVars ==
    <<Kw("field"), Kw("int"), Id(<<"q">>), Sy(","), Id(<<"r">>), Sy(";"),
      Kw("field"), Id(<<"A", "r", "r", "a", "y">>), Id(<<"a">>), Sy(";"),
      Kw("static"), Id(<<"B">>), Id(<<"s", "b">>), Sy(";")>>

\* class <name> { <members> }
SrcClass(name, members) ==
    <<Kw("class"), Id(name), Sy("{")>> \o members \o <<Sy("}")>>

\* function int g() { return 7; }
SrcSecond ==
    <<Kw("function"), Kw("int"), Id(<<"g">>), Sy("("), Sy(")"), Sy("{"),
      Kw("return"), Num(<<"7">>), Sy(";"), Sy("}")>>

\* class A { field int q, r; field Array a; static B sb; <header> { <body> } }
SrcFamily ==
    {SrcClass(<<"A">>, SrcClassVars \o h \o <<Sy("{")>> \o b \o <<Sy("}")>>) :
        h \in SrcHeaders, b \in SrcBodies(MaxStmts)}

\* files with parameter and argument lists that lack a comma, begin with a
\* comma or end with one:
\*   function void f(int p B q) { do g(4 5); return; }
\*   function void f(, int p) { do g(, 4); return; }
\*   function void f(int p,) { return; }
\*   function void f() { do g(4,); return; }
SrcLists ==
    {SrcClass(<<"A">>,
              <<Kw("function"), Kw("void"), Id(<<"f">>), Sy("("),
                Kw("int"), Id(<<"p">>), Id(<<"B">>), Id(<<"q">>), Sy(")"), Sy("{"),
                Kw("do"), Id(<<"g">>), Sy("("), Num(<<"4">>), Num(<<"5">>), Sy(")"),
                Sy(";")>> \o SrcReturn \o <<Sy("}")>>),
     SrcClass(<<"A">>,
              <<Kw("function"), Kw("void"), Id(<<"f">>), Sy("("),
                Sy(","), Kw("int"), Id(<<"p">>), Sy(")"), Sy("{"),
                Kw("do"), Id(<<"g">>), Sy("("), Sy(","), Num(<<"4">>), Sy(")"),
                Sy(";")>> \o SrcReturn \o <<Sy("}")>>),
     SrcClass(<<"A">>,
              <<Kw("function"), Kw("void"), Id(<<"f">>), Sy("("),
                Kw("int"), Id(<<"p">>), Sy(","), Sy(")"), Sy("{")>>
                  \o SrcReturn \o <<Sy("}")>>),
     SrcClass(<<"A">>,
              <<Kw("function"), Kw("void"), Id(<<"f">>), Sy("("), Sy(")"), Sy("{"),
                Kw("do"), Id(<<"g">>), Sy("("), Num(<<"4">>), Sy(","), Sy(")"),
                Sy(";")>> \o SrcReturn \o <<Sy("}")>>)}

\* further files: an empty class; a class whose name starts with an
\* underscore; a subroutine with local variables; two subroutines, the first
\* with nested statements; two subroutines that both have while and if
\* statements, one after the other and nested; a file that does not parse
SrcFurther ==
    {SrcClass(<<"A">>, <<>>),
     SrcClass(<<"_", "A">>,
              <<Kw("function"), Kw("void"), Id(<<"f">>), Sy("("), Sy(")"), Sy("{")>>
                  \o SrcReturn \o <<Sy("}")>>),
     SrcClass(<<"A">>,
              <<Kw("function"), Kw("void"), Id(<<"f">>), Sy("("), Sy(")"), Sy("{"),
                Kw("var"), Kw("int"), Id(<<"i">>), Sy(","), Id(<<"j">>), Sy(";")>>
                  \o SrcReturn \o <<Sy("}")>>),
     SrcClass(<<"A">>,
              SrcClassVars
                  \o <<Kw("method"), Kw("int"), Id(<<"f">>)>> \o SrcParameters
                  \o <<Sy("{"), Kw("while"), Sy("("), Kw("true"), Sy(")"), Sy("{")>>
                  \o SrcIfElse \o SrcDoUnqualified
                  \o <<Sy("}")>> \o SrcWhile \o SrcReturnValue \o <<Sy("}")>>
                  \o SrcSecond),
     SrcClass(<<"A">>,
              SrcClassVars
                  \o <<Kw("method"), Kw("int"), Id(<<"f">>)>> \o SrcParameters
                  \o <<Sy("{")>> \o SrcWhile \o SrcIfElse \o <<Sy("}")>>
                  \o <<Kw("method"), Kw("int"), Id(<<"h">>)>> \o SrcParameters
                  \o <<Sy("{"), Kw("while"), Sy("("), Kw("true"), Sy(")"), Sy("{")>>
                  \o SrcWhile \o SrcIfElse
                  \o <<Sy("}")>> \o SrcIfElse \o <<Sy("}")>>),
     SrcClass(<<"A">>,
              <<Kw("function"), Kw("void"), Id(<<"f">>), Sy("("), Sy(")"), Sy("{"),
                Kw("let"), Sy(";"), Sy("}")>>)}
        \cup SrcLists

SrcFiles == SrcFamily \cup SrcFurther

\* ------------------------------------------------------------------------
\* compiler.py main, lines 47-52, for one input file: parse_class, then
\* CodeGenerator().generate, followed loop iteration by loop iteration.
\* `out.code` is the lines emitted so far: the `code` list of
\* generate_subroutine appended to the lines of the subroutines before it,
\* as the chain of generate line 54 concatenates them.  An exception ends
\* the run at pc = "raised": nothing is returned and no file is written.
\* ------------------------------------------------------------------------
Raise(err) ==
    /\ pc' = "raised"
    /\ out' = [err |-> err, code |-> <<>>]

Init ==
    /\ SymStart
    /\ toks \in SrcFiles
    /\ pc = "source"
    /\ ast = NoneVal
    /\ gen = NoneVal
    /\ pos = <<0, 0>>
    /\ last = NoneVal
    /\ out = [err |-> NoErr, code |-> <<>>]
    /\ vm = NoneVal
    /\ tk = NoneVal
    /\ hack = NoneVal

\* compiler.py:48-49
Parse ==
    /\ pc = "source"
    /\ \E r \in {parse_class(Parser(toks))} :
          /\ ast' = [err |-> r.err, val |-> r.val]
          /\ IF r.err # NoErr THEN Raise(r.err)
             ELSE pc' = "parsed" /\ UNCHANGED out
    /\ UNCHANGED <<symVars, tk, toks, gen, pos, last, vm, hack>>

\* compiler.py:50-51 and CodeGenerator.generate, lines 46-53
GenerateClass ==
    /\ pc = "parsed"
    /\ LET g1 == [CodeGenerator EXCEPT !.cur_class_name = ast.val.name.value,
                                       !.symbol_tables = SymbolTables_push_new(@)]
           decs == add_class_var_decs(g1.symbol_tables, ast.val.class_var_decs)
       IN  IF decs.err # NoErr
           THEN gen' = g1 /\ Raise(decs.err) /\ UNCHANGED pos
           ELSE /\ gen' = [g1 EXCEPT !.symbol_tables = decs.tables]
                /\ pc' = "class"
                /\ pos' = <<1, 0>>
                /\ UNCHANGED out
    /\ UNCHANGED <<symVars, tk, toks, ast, last, vm, hack>>

\* the subroutine the generator is at
CurDec == ast.val.subroutine_decs[pos[1]]

\* CodeGenerator.generate_subroutine, lines 87-89
IsVoidSubroutine(dec) == dec.type_.tag = "Keyword" /\ dec.type_.value = "void"

\* CodeGenerator.generate_subroutine, lines 63-86
GenerateSubroutineEnter ==
    /\ pc = "class"
    /\ pos[1] <= Len(ast.val.subroutine_decs)
    /\ LET dec == CurDec
           g1 == [gen EXCEPT !.subroutine_type = dec.modifier.value,
                             !.symbol_tables = SymbolTables_push_new(@)]
           params == add_parameters(g1.symbol_tables, dec.parameters.parameters)
           locals == add_var_decs(params.tables, dec.body.var_decs)
           g2 == [g1 EXCEPT !.symbol_tables = locals.tables]
           num_locals == Len(dec.body.var_decs)
       IN  IF params.err # NoErr
           THEN gen' = g1 /\ Raise(params.err) /\ UNCHANGED pos
           ELSE IF locals.err # NoErr
           THEN gen' = [g1 EXCEPT !.symbol_tables = locals.tables]
                /\ Raise(locals.err) /\ UNCHANGED pos
           ELSE /\ gen' = g2
                /\ out' = [out EXCEPT !.code =
                              @ \o <<<<"function",
                                       gen.cur_class_name \o <<".">> \o dec.name.value,
                                       Str(num_locals)>>>>
                                \o subroutine_prologue(g2, dec)]
                /\ pc' = "body"
                /\ pos' = <<pos[1], 1>>
    /\ UNCHANGED <<symVars, tk, toks, ast, last, vm, hack>>

\* CodeGenerator.generate_subroutine, lines 90-95: one iteration over
\* dec.body.statements.statements, a call of generate_statement
GenerateStatement ==
    /\ pc = "body"
    /\ pos[2] <= Len(CurDec.body.statements.statements)
    /\ \E r \in {generate_statement(gen, CurDec.body.statements.statements[pos[2]],
                                     IsVoidSubroutine(CurDec))} :
          /\ last' = [pos |-> pos,
                      statement |-> CurDec.body.statements.statements[pos[2]],
                      is_void_subroutine |-> IsVoidSubroutine(CurDec),
                      uniq_label |-> gen.uniq_label,
                      err |-> r.err, code |-> r.code]
          /\ gen' = r.g
          /\ IF r.err # NoErr THEN Raise(r.err) /\ UNCHANGED pos
             ELSE /\ out' = [out EXCEPT !.code = @ \o r.code]
                  /\ pos' = <<pos[1], pos[2] + 1>>
                  /\ UNCHANGED pc
    /\ UNCHANGED <<symVars, tk, toks, ast, vm, hack>>

\* CodeGenerator.generate_subroutine, lines 96-101
GenerateSubroutineExit ==
    /\ pc = "body"
    /\ pos[2] > Len(CurDec.body.statements.statements)
    /\ LET popped == SymbolTables_pop(gen.symbol_tables)
       IN  IF popped.err # NoErr
           THEN Raise(popped.err) /\ UNCHANGED <<gen, pos>>
           ELSE /\ gen' = [gen EXCEPT !.symbol_tables = popped.tables]
                /\ out' = [out EXCEPT !.code = @ \o <<<<>>, <<>>>>]
                /\ pc' = "class"
                /\ pos' = <<pos[1] + 1, 0>>
    /\ UNCHANGED <<symVars, tk, toks, ast, last, vm, hack>>

\* CodeGenerator.generate, lines 59-60
GenerateReturn ==
    /\ pc = "class"
    /\ pos[1] > Len(ast.val.subroutine_decs)
    /\ LET popped == SymbolTables_pop(gen.symbol_tables)
       IN  IF popped.err # NoErr
           THEN Raise(popped.err) /\ UNCHANGED gen
           ELSE /\ gen' = [gen EXCEPT !.symbol_tables = popped.tables]
                /\ pc' = "generated"
                /\ UNCHANGED out
    /\ UNCHANGED <<symVars, tk, toks, ast, pos, last, vm, hack>>

Next ==
    \/ Parse
    \/ GenerateClass
    \/ GenerateSubroutineEnter
    \/ GenerateStatement
    \/ GenerateSubroutineExit
    \/ GenerateReturn

Spec == Init /\ [][Next]_vars


\* ------------------------------------------------------------------------
\* vm_translator.py: class Parser.  A line is matched word by word; the
\* blanks between the words and the end of the line, which the regular
\* expressions also match, are those "\n".join and the file iterator give.
\* ------------------------------------------------------------------------
LowerChars ==
    {"a", "b", "c", "d", "e", "f", "g", "h", "i", "j", "k", "l", "m",
     "n", "o", "p", "q", "r", "s", "t", "u", "v", "w", "x", "y", "z"}
UpperChars ==
    {"A", "B", "C", "D", "E", "F", "G", "H", "I", "J", "K", "L", "M",
     "N", "O", "P", "Q", "R", "S", "T", "U", "V", "W", "X", "Y", "Z"}
DigitSet == {DigitChars[i] : i \in 1..10}

\* Parser._re_arithmetic
VM_re_arithmetic == {"add", "sub", "neg", "eq", "gt", "lt", "and", "or", "not"}

\* Parser._re_memory_segment
VM_re_memory_segment ==
    {"local", "argument", "this", "that", "constant", "static", "pointer", "temp"}

\* Parser._re_argument, (\d+), on a whole word
VM_re_argument(w) == Len(w) >= 1 /\ \A i \in 1..Len(w) : w[i] \in DigitSet

\* Parser._re_symbol, ([a-zA-Z][a-zA-Z\d_\.:$]*), on a whole word
VM_re_symbol(w) ==
    /\ Len(w) >= 1
    /\ w[1] \in LowerChars \cup UpperChars
    /\ \A i \in 2..Len(w) :
          w[i] \in LowerChars \cup UpperChars \cup DigitSet \cup {"_", ".", ":", "$"}

VMOk(command_type, arguments) ==
    [err |-> NoErr, command_type |-> command_type, arguments |-> arguments]

\* Parser.advance: the command type of a line and its arguments, ParseError
\* when no regular expression matches
VM_advance(line) ==
    IF Len(line) = 1 /\ line[1] \in VM_re_arithmetic
    THEN VMOk("ARITHMETIC", <<line[1], NoneVal>>)
    ELSE IF Len(line) = 3 /\ line[1] = "push" /\ line[2] \in VM_re_memory_segment
            /\ VM_re_argument(line[3])
    THEN VMOk("PUSH", <<line[2], PyInt(line[3])>>)
    ELSE IF Len(line) = 3 /\ line[1] = "pop" /\ line[2] \in VM_re_memory_segment
            /\ VM_re_argument(line[3])
    THEN VMOk("POP", <<line[2], PyInt(line[3])>>)
    ELSE IF Len(line) = 2 /\ line[1] = "label" /\ VM_re_symbol(line[2])
    THEN VMOk("LABEL", <<line[2], NoneVal>>)
    ELSE IF Len(line) = 2 /\ line[1] = "goto" /\ VM_re_symbol(line[2])
    THEN VMOk("GOTO", <<line[2], NoneVal>>)
    ELSE IF Len(line) = 2 /\ line[1] = "if-goto" /\ VM_re_symbol(line[2])
    THEN VMOk("IFGOTO", <<line[2], NoneVal>>)
    ELSE IF Len(line) = 3 /\ line[1] = "function" /\ VM_re_symbol(line[2])
            /\ VM_re_argument(line[3])
    THEN VMOk("FUNCTION", <<line[2], PyInt(line[3])>>)
    ELSE IF Len(line) = 3 /\ line[1] = "call" /\ VM_re_symbol(line[2])
            /\ VM_re_argument(line[3])
    THEN VMOk("CALL", <<line[2], PyInt(line[3])>>)
    ELSE IF line = <<"return">>
    THEN VMOk("RETURN", <<NoneVal, NoneVal>>)
    ELSE IF line = <<>>
    THEN VMOk("NONE", <<NoneVal, NoneVal>>)
    ELSE [err |-> "ParseError", command_type |-> "NONE", arguments |-> <<NoneVal, NoneVal>>]

\* ------------------------------------------------------------------------
\* vm_translator.py: class CodeGenerator (of the VM translator).  Each
\* generate_ method is modelled by the effect on the RAM of the assembly it
\* returns; the RAM is a function from addresses to integers (the runs of
\* the model stay far from the limits of a machine word).
\* ------------------------------------------------------------------------
\* the predefined symbols of the assembler the emitted assembly refers to
Reg == [SP |-> 0, LCL |-> 1, ARG |-> 2, THIS |-> 3, THAT |-> 4, R13 |-> 13]

\* CodeGenerator._translate_memory_segment
translate_memory_segment(memory_segment) ==
    IF memory_segment = "local" THEN Reg.LCL
    ELSE IF memory_segment = "argument" THEN Reg.ARG
    ELSE IF memory_segment = "this" THEN Reg.THIS
    ELSE Reg.THAT

\* CodeGenerator._push_d_sp_inc: RAM[*SP] = D and SP++
push_d_sp_inc(ram, d) ==
    LET stored == [ram EXCEPT ![ram[Reg.SP]] = d]
    IN  [stored EXCEPT ![Reg.SP] = @ + 1]

\* CodeGenerator._sp_dec_pop_d: SP-- and D = RAM[*SP]
sp_dec_pop_d(ram) ==
    LET dec == [ram EXCEPT ![Reg.SP] = @ - 1]
    IN  [ram |-> dec, d |-> dec[dec[Reg.SP]]]

\* CodeGenerator.generate_push; the static segment, which the assembler
\* allocates, is not part of this RAM
VM_generate_push(ram, memory_segment, argument) ==
    IF memory_segment \in {"local", "argument", "this", "that"}
    THEN push_d_sp_inc(ram,
             ram[argument + ram[translate_memory_segment(memory_segment)]])
    ELSE IF memory_segment = "constant" THEN push_d_sp_inc(ram, argument)
    ELSE IF memory_segment = "pointer" THEN push_d_sp_inc(ram, ram[argument + 3])
    ELSE push_d_sp_inc(ram, ram[argument + 5])

\* CodeGenerator.generate_pop: for the four base-register segments the
\* target address is put in R13 before the stack is popped
VM_generate_pop(ram, memory_segment, argument) ==
    IF memory_segment \in {"local", "argument", "this", "that"}
    THEN LET addr == [ram EXCEPT ![Reg.R13] =
                         argument + ram[translate_memory_segment(memory_segment)]]
             popped == sp_dec_pop_d(addr)
         IN  [popped.ram EXCEPT ![popped.ram[Reg.R13]] = popped.d]
    ELSE IF memory_segment = "pointer"
    THEN LET popped == sp_dec_pop_d(ram)
         IN  [popped.ram EXCEPT ![argument + 3] = popped.d]
    ELSE LET popped == sp_dec_pop_d(ram)
         IN  [popped.ram EXCEPT ![argument + 5] = popped.d]

\* CodeGenerator._generate_binary_op for add (M=M+D) and sub (M=M-D)
VM_generate_binary_op(ram, argument) ==
    LET popped == sp_dec_pop_d(ram)
        top == popped.ram[Reg.SP] - 1
    IN  IF argument = "add"
        THEN [popped.ram EXCEPT ![top] = @ + popped.d]
        ELSE [popped.ram EXCEPT ![top] = @ - popped.d]

\* ------------------------------------------------------------------------
\* The code of an array assignment, executed.  A file with one method whose
\* body is one `let a[i] = e;` is compiled; the code of the statement is then
\* run, one VM command per step, as the assembly of the VM translator runs
\* it, from a RAM in which THIS is the object and its field a an array.
\* ------------------------------------------------------------------------
\* a[a[n]]
SrcIndexedTwice(n) == <<Id(<<"a">>), Sy("[")>> \o SrcIndexed(n) \o <<Sy("]")>>

\* let a[a[0]] = a[a[1]] - 1;
SrcLetArrayNested ==
    <<Kw("let")>> \o SrcIndexedTwice("0") \o <<Sy("=")>> \o SrcIndexedTwice("1")
        \o <<Sy("-"), Num(<<"1">>), Sy(";")>>
\* let a[2] = 7;
SrcLetArrayConstant ==
    <<Kw("let")>> \o SrcIndexed("2") \o <<Sy("="), Num(<<"7">>), Sy(";")>>

\* class A { field int q, r; field Array a; static B sb;
\*           method void f(B q, int p) { <statement> } }
RunFiles ==
    {SrcClass(<<"A">>,
              SrcClassVars \o <<Kw("method"), Kw("void"), Id(<<"f">>)>> \o SrcParameters
                  \o <<Sy("{")>> \o s \o <<Sy("}")>>) :
        s \in {SrcLetArray, SrcLetArrayNested, SrcLetArrayConstant}}

\* where the run keeps the stack (generate_init sets SP to 256), the object
\* and the array of MaxCell + 1 cells
RunLayout == [stack |-> 256, object |-> 2048, array |-> 2051]
RunStack == RunLayout.stack..(RunLayout.stack + 7)
RunArray == RunLayout.array..(RunLayout.array + MaxCell)
RunAddrs == 0..15 \cup RunStack \cup RunLayout.object..(RunLayout.array - 1) \cup RunArray

\* the RAMs a run starts from: the cells of the array hold 0..MaxCell, THAT
\* is what some earlier statement left in it
RunRams ==
    {[x \in RunAddrs |->
        IF x = Reg.SP THEN RunLayout.stack
        ELSE IF x = Reg.THIS THEN RunLayout.object
        ELSE IF x = Reg.THAT THEN that
        ELSE IF x = RunLayout.object + 2 THEN RunLayout.array
        ELSE IF x \in RunArray THEN cells[x - RunLayout.array]
        ELSE 0] :
        that \in {0, RunLayout.array + MaxCell}, cells \in [0..MaxCell -> 0..MaxCell]}

RunInit ==
    /\ SymStart
    /\ toks \in RunFiles
    /\ pc = "source"
    /\ ast = NoneVal
    /\ gen = NoneVal
    /\ pos = <<0, 0>>
    /\ last = NoneVal
    /\ out = [err |-> NoErr, code |-> <<>>]
    /\ vm = NoneVal
    /\ tk = NoneVal
    /\ hack = NoneVal

\* the code of the statement is loaded and the run starts
VMLoad ==
    /\ pc = "generated"
    /\ last # NoneVal
    /\ vm' \in {[code |-> last.code, ip |-> 1, ram |-> r, ram0 |-> r] : r \in RunRams}
    /\ pc' = "run"
    /\ UNCHANGED <<symVars, tk, toks, ast, gen, pos, last, out, hack>>

\* vm_translator.py main, lines 472-499: one command is parsed and the
\* assembly generated for it takes effect
VMStep ==
    /\ pc = "run"
    /\ vm.ip <= Len(vm.code)
    /\ LET c == VM_advance(vm.code[vm.ip])
       IN  /\ c.err = NoErr
           /\ \/ /\ c.command_type = "PUSH"
                 /\ vm' = [vm EXCEPT !.ip = @ + 1,
                                     !.ram = VM_generate_push(@, c.arguments[1],
                                                              c.arguments[2])]
              \/ /\ c.command_type = "POP"
                 /\ vm' = [vm EXCEPT !.ip = @ + 1,
                                     !.ram = VM_generate_pop(@, c.arguments[1],
                                                             c.arguments[2])]
              \/ /\ c.command_type = "ARITHMETIC"
                 /\ c.arguments[1] \in {"add", "sub"}
                 /\ vm' = [vm EXCEPT !.ip = @ + 1,
                                     !.ram = VM_generate_binary_op(@, c.arguments[1])]
    /\ UNCHANGED <<symVars, genVars>>

RunNext == Next \/ VMLoad \/ VMStep

SpecRun == RunInit /\ [][RunNext]_vars


\* ------------------------------------------------------------------------
\* Claims about the code generator (checked under Spec and SpecRun)
\* ------------------------------------------------------------------------

\* `last` is the statement generate_statement was last called on, and the
\* tables of `gen` are still those it was generated with
JustGenerated ==
    /\ last # NoneVal
    /\ \/ pc = "body" /\ pos = <<last.pos[1], last.pos[2] + 1>>
       \/ pc = "raised" /\ pos = last.pos

\* the VM segment of a storage kind
SegOf(kind) ==
    CASE kind = "FIELD" -> "this" [] kind = "STATIC" -> "static"
      [] kind = "LOCAL" -> "local" [] kind = "ARGUMENT" -> "argument"

\* the live tables that hold a name, the innermost first, and the symbol the
\* name resolves to
Holding(tabs, name) == {t \in 1..Len(tabs) : InTable(tabs[t], name)}
Innermost(tabs, name) ==
    LET t == CHOOSE u \in Holding(tabs, name) : \A v \in Holding(tabs, name) : u <= v
    IN  tabs[t][CHOOSE i \in 1..Len(tabs[t]) : tabs[t][i].name = name]

CallLine(cls, name, n) == <<"call", cls \o <<".">> \o name, Str(n)>>
PushLine(seg, n) == <<"push", seg, Str(n)>>
PopLine(seg, n) == <<"pop", seg, Str(n)>>

\* C1: a call with no qualifier, name N and k arguments emits `push pointer
\* 0`, the code of the arguments in order and `call CurrentClass.N k+1` (here
\* for the call of a do statement, which `pop temp 0` follows).
C1_UnqualifiedCallPushesThis ==
    (/\ JustGenerated
     /\ last.statement.tag = "DoStatement"
     /\ last.statement.term.qualifier.tag = "None") =>
        LET term == last.statement.term
            args == gen_arguments(gen, term.arguments)
        IN  args.err = NoErr =>
                /\ last.err = NoErr
                /\ last.code =
                      <<PushLine("pointer", 0)>> \o args.code
                          \o <<CallLine(gen.cur_class_name, term.name.value,
                                        Len(term.arguments) + 1),
                               PopLine("temp", 0)>>

\* C2: a call Q.N with k arguments: if Q resolves, innermost scope first, to
\* a symbol S of a class type C, the code is `push seg(S.kind) S.index`, the
\* arguments in order and `call C.N k+1`; if Q resolves to no symbol, the
\* arguments and `call Q.N k`; if Q resolves to a symbol of type int, char or
\* boolean, CodeGeneratorError is raised (here for the call of a do
\* statement, which `pop temp 0` follows).
C2_QualifiedCall ==
    (/\ JustGenerated
     /\ last.statement.tag = "DoStatement"
     /\ last.statement.term.qualifier.tag # "None") =>
        LET term == last.statement.term
            Q == term.qualifier.value
            k == Len(term.arguments)
            args == gen_arguments(gen, term.arguments)
            S == Innermost(gen.symbol_tables, Q)
        IN  IF Holding(gen.symbol_tables, Q) = {}
            THEN args.err = NoErr =>
                    /\ last.err = NoErr
                    /\ last.code = args.code
                                       \o <<CallLine(Q, term.name.value, k),
                                            PopLine("temp", 0)>>
            ELSE IF S.type_.tag = "TypeClass"
            THEN args.err = NoErr =>
                    /\ last.err = NoErr
                    /\ last.code = <<PushLine(SegOf(S.kind), S.index)>> \o args.code
                                       \o <<CallLine(S.type_.value, term.name.value, k + 1),
                                            PopLine("temp", 0)>>
            ELSE /\ S.type_.tag \in {"TypeInt", "TypeChar", "TypeBool"}
                 /\ last.err = "CodeGeneratorError"
                 /\ last.code = <<>>

\* C2 witness: `do q.m("a");` where the argument q of class B hides the field
\* q of type int: the receiver is pushed from the argument segment and
\* counted
C2_Witness ==
    /\ JustGenerated
    /\ last.statement.tag = "DoStatement"
    /\ Cardinality(Holding(gen.symbol_tables, <<"q">>)) = 2
    /\ last.code =
          <<PushLine("argument", 0), PushLine("constant", 1),
            CallLine(<<"S", "t", "r", "i", "n", "g">>, <<"n", "e", "w">>, 1),
            PushLine("constant", 97),
            CallLine(<<"S", "t", "r", "i", "n", "g">>,
                     <<"a", "p", "p", "e", "n", "d", "C", "h", "a", "r">>, 2),
            CallLine(<<"B">>, <<"m">>, 2), PopLine("temp", 0)>>

\* the control flow of emitted code between a function line at lo and the
\* next function line, or the end of the code, at hi
IsFunctionLine(line) == Len(line) = 3 /\ line[1] = "function"
SubroutineEnd(code, lo) ==
    LET later == {j \in (lo + 1)..Len(code) : IsFunctionLine(code[j])}
    IN  IF later = {} THEN Len(code) + 1
        ELSE CHOOSE j \in later : \A m \in later : j <= m
LabelsAt(code, lo, hi, name) == {j \in lo..(hi - 1) : code[j] = <<"label", name>>}
Successors(code, lo, hi, j) ==
    IF code[j] = <<"return">> THEN {}
    ELSE IF Len(code[j]) = 2 /\ code[j][1] = "goto"
    THEN LabelsAt(code, lo, hi, code[j][2])
    ELSE IF Len(code[j]) = 2 /\ code[j][1] = "if-goto"
    THEN LabelsAt(code, lo, hi, code[j][2]) \cup {j + 1}
    ELSE {j + 1}
RECURSIVE Reach(_, _, _, _)
Reach(code, lo, hi, seen) ==
    LET more == UNION {Successors(code, lo, hi, j) : j \in seen} \cap lo..(hi - 1)
    IN  IF more \subseteq seen THEN seen ELSE Reach(code, lo, hi, seen \cup more)

\* C3: from the function line of every emitted subroutine, no control path
\* gets to the next function line or to the end of the output: each ends in
\* a return.
C3_EveryPathReturns ==
    pc = "generated" =>
        \A lo \in 1..Len(out.code) :
            IsFunctionLine(out.code[lo]) =>
                LET hi == SubroutineEnd(out.code, lo)
                IN  \A j \in Reach(out.code, lo, hi, {lo}) :
                        hi \notin Successors(out.code, lo, hi, j)

\* C4: a return statement: in a void subroutine and without a value, `push
\* constant 0` and `return`; in a non-void subroutine and with a value, the
\* code of the expression and `return`; with a value in a void subroutine,
\* or without one in a non-void subroutine, CodeGeneratorError is raised and
\* no return is emitted.
C4_ReturnProtocol ==
    (JustGenerated /\ last.statement.tag = "ReturnStatement") =>
        LET dec == ast.val.subroutine_decs[last.pos[1]]
            void == dec.type_ = KeywordTok("void")
            value == last.statement.expression
            exp == generate_expression(gen, value)
        IN  IF void /\ value.tag = "None"
            THEN /\ last.err = NoErr
                 /\ last.code = <<PushLine("constant", 0), <<"return">>>>
            ELSE IF ~void /\ value.tag # "None"
            THEN IF exp.err = NoErr
                 THEN last.err = NoErr /\ last.code = exp.code \o <<<<"return">>>>
                 ELSE last.err = exp.err
            ELSE /\ last.err = "CodeGeneratorError"
                 /\ last.code = <<>>
                 /\ pc = "raised"
                 /\ out = [err |-> "CodeGeneratorError", code |-> <<>>]

\* C4 witness: `return 1;` in a void function, after a statement that had
\* emitted code: the error is raised and nothing is emitted
C4_Witness ==
    /\ JustGenerated
    /\ last.statement.tag = "ReturnStatement"
    /\ last.statement.expression.tag = "Expression"
    /\ ast.val.subroutine_decs[last.pos[1]].type_ = KeywordTok("void")
    /\ last.pos[2] = 2
    /\ last.err = "CodeGeneratorError"
    /\ out.code = <<>>

\* C5: every if statement, with or without an else, emits the condition,
\* `not`, `if-goto IFk.FALSE`, the then block, `goto IFk.END`, `label
\* IFk.FALSE`, the else block (empty without an else) and `label IFk.END`;
\* an if without an else compiles.
C5_IfWithOrWithoutElse ==
    (JustGenerated /\ last.statement.tag = "IfStatement") =>
        LET stm == last.statement
            g == [gen EXCEPT !.uniq_label = last.uniq_label + 1]
            IFk == <<"I", "F">> \o Str(last.uniq_label)
            condition == generate_expression(g, stm.condition)
            then == generate_statements(g, stm.true_statements.statements,
                                        last.is_void_subroutine)
            else == IF stm.false_statements.tag = "Statements"
                    THEN generate_statements(then.g, stm.false_statements.statements,
                                             last.is_void_subroutine)
                    ELSE GOk(<<>>, then.g)
        IN  (condition.err = NoErr /\ then.err = NoErr /\ else.err = NoErr) =>
                /\ last.err = NoErr
                /\ last.code =
                      condition.code
                          \o <<<<"not">>,
                               <<"if-goto", IFk \o <<".", "F", "A", "L", "S", "E">>>>>>
                          \o then.code
                          \o <<<<"goto", IFk \o <<".", "E", "N", "D">>>>,
                               <<"label", IFk \o <<".", "F", "A", "L", "S", "E">>>>>>
                          \o else.code
                          \o <<<<"label", IFk \o <<".", "E", "N", "D">>>>>>

\* the code of a sequence of terms, in order, and of a sequence of operators
RECURSIVE CodeOfTerms(_, _)
CodeOfTerms(g, terms) ==
    IF terms = <<>> THEN <<>>
    ELSE generate_term(g, Head(terms)).code \o CodeOfTerms(g, Tail(terms))
RECURSIVE CodeOfOps(_)
CodeOfOps(ops) ==
    IF ops = <<>> THEN <<>> ELSE gen_op(Head(ops)).code \o CodeOfOps(Tail(ops))
Reversed(s) == [i \in 1..Len(s) |-> s[Len(s) + 1 - i]]

RECURSIVE ValueOfExpression(_, _)
RECURSIVE ValueOfTerm(_, _)
RECURSIVE ValueOfTail(_, _, _)
ValueOfTerm(term, ram) ==
    IF term.tag = "ConstantTerm" THEN PyInt(term.value.value)
    ELSE ram[ram[ram[Reg.THIS] + 2] + ValueOfExpression(term.index, ram)]
ValueOfTail(left, tail, ram) ==
    IF tail = <<>> THEN left
    ELSE LET right == ValueOfTail(ValueOfTerm(Head(tail).items[2], ram), Tail(tail), ram)
         IN  IF Head(tail).items[1].value = "+" THEN left + right ELSE left - right
ValueOfExpression(exp, ram) == ValueOfTail(ValueOfTerm(exp.term, ram), exp.tail, ram)

\* C7: `let a[i] = e` emits the push of a, the code of i, `add`, the code of
\* e and `pop temp 0; pop pointer 1; push temp 0; pop that 0`; run, that code
\* stores the value of e at the address a + i, i taken before e was
\* evaluated, changes no other cell of the array, and leaves the stack as it
\* was, also when e reads elements of arrays.
C7_IndexedLetStoresAtTarget ==
    /\ (/\ JustGenerated
        /\ last.statement.tag = "LetStatement"
        /\ last.statement.idx_expression.tag # "None") =>
           LET stm == last.statement
               a == Innermost(gen.symbol_tables, stm.name.value)
               i == generate_expression(gen, stm.idx_expression)
               e == generate_expression(gen, stm.expression)
           IN  (i.err = NoErr /\ e.err = NoErr) =>
                   /\ last.err = NoErr
                   /\ last.code =
                         <<PushLine(SegOf(a.kind), a.index)>> \o i.code \o <<<<"add">>>>
                             \o e.code
                             \o <<PopLine("temp", 0), PopLine("pointer", 1),
                                  PushLine("temp", 0), PopLine("that", 0)>>
    /\ (pc = "run" /\ vm.ip > Len(vm.code)) =>
           LET stm == last.statement
               target == vm.ram0[vm.ram0[Reg.THIS] + 2]
                             + ValueOfExpression(stm.idx_expression, vm.ram0)
           IN  /\ vm.ram[target] = ValueOfExpression(stm.expression, vm.ram0)
               /\ \A x \in RunArray \ {target} : vm.ram[x] = vm.ram0[x]
               /\ vm.ram[Reg.SP] = vm.ram0[Reg.SP]
               /\ vm.ram[Reg.THIS] = vm.ram0[Reg.THIS]

\* C7 witness: `let a[1] = a[2] + a[0];` has run from a = (1, 0, 2): a[1] is
\* now 3, and THAT had been set to the address of a[0], the element read
\* last, before the store
C7_Witness ==
    /\ pc = "run"
    /\ vm.ip > Len(vm.code)
    /\ Len(vm.code) = 18
    /\ vm.code[13] = PushLine("that", 0)
    /\ vm.ram0[RunLayout.array] = 1
    /\ vm.ram0[RunLayout.array + 1] = 0
    /\ vm.ram0[RunLayout.array + 2] = 2
    /\ vm.ram[RunLayout.array + 1] = 3
    /\ vm.ram[RunLayout.array] = 1
    /\ vm.ram[RunLayout.array + 2] = 2
    /\ vm.ram[Reg.THAT] = RunLayout.array + 1

\* C8: every line generate returns is a VM command the Parser of the VM
\* translator accepts, its names matching [a-zA-Z][a-zA-Z0-9_.:$]* (the
\* Parser also accepts an empty line, which is let pass here).
C8_EveryLineIsVMCommand ==
    pc = "generated" =>
        \A i \in 1..Len(out.code) : VM_advance(out.code[i]).err = NoErr

\* ------------------------------------------------------------------------
\* Further claims about the symbol tables (checked under SpecSym)
\* ------------------------------------------------------------------------

\* C11: lookup(name) returns the entry of the most recently pushed live table
\* that holds the name, whatever the tables pushed before it hold and
\* whatever tables were pushed and popped since, and raises
\* SymbolNotFoundError exactly when no live table holds the name.
C11_LookupInnermostLive ==
    symRes.op = "lookup" =>
        /\ symRes.err \in {NoErr, "SymbolNotFoundError"}
        /\ symRes.err = "SymbolNotFoundError" <=> Holding(tables, symRes.name) = {}
        /\ symRes.err = NoErr => symRes.symbol = Innermost(tables, symRes.name)

\* C11 witness: a name declared in both live tables, with different kinds and
\* types, has just been looked up and the inner entry was returned
C11_Witness ==
    /\ symRes.op = "lookup"
    /\ Len(tables) = 2
    /\ Holding(tables, symRes.name) = {1, 2}
    /\ Innermost(tables, symRes.name) # SymbolTable_lookup(tables[2], symRes.name).symbol
    /\ symRes.symbol = SymbolTable_lookup(tables[1], symRes.name).symbol

\* ------------------------------------------------------------------------
\* Further claims about the code generator (checked under Spec)
\* ------------------------------------------------------------------------

\* the kinds of the symbols of a table
KindsOf(table) == {table[i].kind : i \in 1..Len(table)}

\* C12: during generate on a fresh generator, one table is live once the
\* class-level declarations are processed and between subroutines, two while
\* a subroutine is generated, never more than two, and none when generate
\* has returned; the outer table holds only Static and Field symbols and the
\* inner one only Argument and Local symbols.
C12_ScopeDepthAndKinds ==
    /\ pc = "class" => Len(gen.symbol_tables) = 1
    /\ pc = "body" => Len(gen.symbol_tables) = 2
    /\ pc = "generated" => Len(gen.symbol_tables) = 0
    /\ HasAttr(gen, "symbol_tables") =>
          LET tabs == gen.symbol_tables
          IN  /\ Len(tabs) <= 2
              /\ Len(tabs) >= 1 => KindsOf(tabs[Len(tabs)]) \subseteq {"STATIC", "FIELD"}
              /\ Len(tabs) = 2 => KindsOf(tabs[1]) \subseteq {"ARGUMENT", "LOCAL"}

\* C12 witness: generate has returned for a class with fields, a static and
\* two subroutines, the first with parameters, and no table is live
C12_Witness ==
    /\ pc = "generated"
    /\ gen.symbol_tables = <<>>
    /\ Len(ast.val.class_var_decs) > 1
    /\ Len(ast.val.subroutine_decs) = 2
    /\ ast.val.subroutine_decs[1].parameters.parameters # <<>>
    /\ Len(out.code) > 4

\* ------------------------------------------------------------------------
\* tokenizer.py.  A line is a sequence of characters without a newline
\* (compiler.py:45 splits the file at "\n").
\* ------------------------------------------------------------------------

\* VALID_KEYWORDS: the text of each keyword and the word it is written as
VALID_KEYWORDS ==
    { <<<<"c", "l", "a", "s", "s">>, "class">>,
      <<<<"c", "o", "n", "s", "t", "r", "u", "c", "t", "o", "r">>, "constructor">>,
      <<<<"f", "u", "n", "c", "t", "i", "o", "n">>, "function">>,
      <<<<"m", "e", "t", "h", "o", "d">>, "method">>,
      <<<<"f", "i", "e", "l", "d">>, "field">>,
      <<<<"s", "t", "a", "t", "i", "c">>, "static">>,
      <<<<"v", "a", "r">>, "var">>,
      <<<<"i", "n", "t">>, "int">>,
      <<<<"c", "h", "a", "r">>, "char">>,
      <<<<"b", "o", "o", "l", "e", "a", "n">>, "boolean">>,
      <<<<"v", "o", "i", "d">>, "void">>,
      <<<<"t", "r", "u", "e">>, "true">>,
      <<<<"f", "a", "l", "s", "e">>, "false">>,
      <<<<"n", "u", "l", "l">>, "null">>,
      <<<<"t", "h", "i", "s">>, "this">>,
      <<<<"l", "e", "t">>, "let">>,
      <<<<"d", "o">>, "do">>,
      <<<<"i", "f">>, "if">>,
      <<<<"e", "l", "s", "e">>, "else">>,
      <<<<"w", "h", "i", "l", "e">>, "while">>,
      <<<<"r", "e", "t", "u", "r", "n">>, "return">> }

\* VALID_SYMBOLS
VALID_SYMBOLS ==
    {"(", ")", "[", "]", ".", "-", "+", "*", "|",
     "{", "}", ",", ";", "/", "&", "<", ">", "=", "~"}

\* the characters \s matches in a line
WhiteChars == {" ", "\t"}
\* [a-zA-Z_] and [a-zA-Z_\d] of IDENTIFIER_KEYWORD_REGEX
IdentStartChars == LowerChars \cup UpperChars \cup {"_"}
IdentChars == IdentStartChars \cup DigitSet
\* [a-zA-Z\d?\s:] of STRING_CONSTANT_REGEX
StringChars == LowerChars \cup UpperChars \cup DigitSet \cup WhiteChars \cup {"?", ":"}

\* the length of the longest prefix of a line made of characters of S, which
\* is what a greedy S* at the start of a line matches
PrefixLen(line, S) ==
    CHOOSE n \in 0..Len(line) :
        /\ \A i \in 1..n : line[i] \in S
        /\ n = Len(line) \/ line[n + 1] \notin S
Drop(line, n) == SubSeq(line, n + 1, Len(line))
StartsWith(line, p) == Len(line) >= Len(p) /\ SubSeq(line, 1, Len(p)) = p
\* the positions at which p occurs in a line
Occurrences(line, p) ==
    {i \in 1..(Len(line) - Len(p) + 1) : SubSeq(line, i, i + Len(p) - 1) = p}

\* the trailing \s*(.*) of the token regexes: the rest of the line without
\* its leading white space
RestOf(line) == Drop(line, PrefixLen(line, WhiteChars))

TokOk(token, line, in_comment) ==
    [err |-> NoErr, token |-> token, line |-> line, in_comment |-> in_comment]

\* the factory of IDENTIFIER_KEYWORD_REGEX: a Keyword if the text is one of
\* VALID_KEYWORDS, else an Identifier
KeywordOrIdentifier(val) ==
    IF \E k \in VALID_KEYWORDS : k[1] = val
    THEN KeywordTok((CHOOSE k \in VALID_KEYWORDS : k[1] = val)[2])
    ELSE IdentifierTok(val)

\* _parse_token, lines 133-138: the regexes of REGEXS_WITH_FACTORY are tried
\* in order on a line without leading white space
parse_token_regexs(line) ==
    IF line # <<>> /\ line[1] \in IdentStartChars
    THEN LET n == PrefixLen(line, IdentChars)
         IN  TokOk(KeywordOrIdentifier(SubSeq(line, 1, n)), RestOf(Drop(line, n)), FALSE)
    ELSE IF line # <<>> /\ line[1] \in VALID_SYMBOLS
    THEN TokOk(SymbolTok(line[1]), RestOf(Drop(line, 1)), FALSE)
    ELSE IF line # <<>> /\ line[1] \in DigitSet
    THEN LET n == PrefixLen(line, DigitSet)
         IN  TokOk(IntegerConstantTok(SubSeq(line, 1, n)), RestOf(Drop(line, n)), FALSE)
    ELSE IF /\ line # <<>>
            /\ line[1] = "\""
            /\ LET n == PrefixLen(Drop(line, 1), StringChars)
               IN  Len(line) >= n + 2 /\ line[n + 2] = "\""
    THEN LET n == PrefixLen(Drop(line, 1), StringChars)
         IN  TokOk(StringConstantTok(SubSeq(line, 2, n + 1)),
                   RestOf(Drop(line, n + 2)), FALSE)
    ELSE [err |-> "TokenizeError", token |-> NoneVal, line |-> line,
          in_comment |-> FALSE]

\* _parse_token.  MULTILINE_COMMENT_END_REGEX is ^.*\*/(.*): its .* is
\* greedy, so the match ends at the last */ of the line
parse_token(line, in_comment) ==
    IF in_comment
    THEN IF Occurrences(line, <<"*", "/">>) # {}
         THEN LET ends == Occurrences(line, <<"*", "/">>)
                  e == CHOOSE i \in ends : \A j \in ends : j <= i
              IN  TokOk(NoneVal, Drop(line, e + 1), FALSE)
         ELSE TokOk(NoneVal, <<>>, TRUE)
    ELSE LET stripped == RestOf(line)
         IN  IF StartsWith(stripped, <<"/", "/">>)
             THEN TokOk(NoneVal, <<>>, FALSE)
             ELSE IF StartsWith(stripped, <<"/", "*">>)
             THEN TokOk(NoneVal, Drop(stripped, 2), TRUE)
             ELSE parse_token_regexs(stripped)

\* ------------------------------------------------------------------------
\* The tokenizer as a state machine: gen_tokens_for_lines over the lines of
\* one file, a step per call of _parse_token
\* ------------------------------------------------------------------------

\* the pieces the second line of a file is put together from: x, a blank, /*,
\* */ and //
TokPieces == {<<"x">>, <<" ">>, <<"/", "*">>, <<"*", "/">>, <<"/", "/">>}

\* the lines of at most n pieces
RECURSIVE TokLines(_)
TokLines(n) ==
    IF n = 0 THEN {<<>>}
    ELSE TokLines(n - 1) \cup {l \o p : l \in TokLines(n - 1), p \in TokPieces}

\* the first lines: an empty line; two blanks; a line that opens a block
\* comment; `do x7 = 32767 + 40000;`; `"x: 7" /* x */ ` with a trailing blank
TokFirstLines ==
    {<<>>,
     <<" ", " ">>,
     <<"/", "*", " ", "x">>,
     <<"d", "o", " ", "x", "7", " ", "=", " ", "3", "2", "7", "6", "7", " ", "+", " ",
       "4", "0", "0", "0", "0", ";">>,
     <<"\"", "x", ":", " ", "7", "\"", " ", "/", "*", " ", "x", " ", "*", "/", " ">>}

TokFiles == {<<first, second>> : first \in TokFirstLines, second \in TokLines(MaxPieces)}

\* gen_tokens_for_lines, line 83, before the first line is taken.  line_num
\* counts the lines taken; start and call remember the state at the start of
\* the current line and the arguments of the last _parse_token call.
TokInit ==
    /\ SymStart
    /\ \E lines \in TokFiles :
          tk = [lines |-> lines, line_num |-> 0, line |-> <<>>, in_comment |-> FALSE,
                start |-> [in_comment |-> FALSE, ntoks |-> 0],
                call |-> [line |-> <<>>, in_comment |-> FALSE]]
    /\ toks = <<>>
    /\ hack = NoneVal
    /\ pc = "lines"
    /\ ast = NoneVal
    /\ gen = NoneVal
    /\ pos = <<0, 0>>
    /\ last = NoneVal
    /\ out = [err |-> NoErr, code |-> <<>>]
    /\ vm = NoneVal

\* gen_tokens_for_lines, lines 84-85: the next line is taken
TokNextLine ==
    /\ pc = "lines"
    /\ tk.line_num < Len(tk.lines)
    /\ tk' = [tk EXCEPT !.line_num = @ + 1,
                        !.line = tk.lines[tk.line_num + 1],
                        !.start = [in_comment |-> tk.in_comment, ntoks |-> Len(toks)],
                        !.call = [line |-> <<>>, in_comment |-> FALSE]]
    /\ pc' = "line"
    /\ UNCHANGED <<symVars, toks, ast, gen, pos, last, out, vm, hack>>

\* gen_tokens_for_line, lines 75-79, and gen_tokens_for_lines, lines 86-89:
\* one call of _parse_token on what is left of the line; a token that is not
\* None is yielded
TokParseToken ==
    /\ pc = "line"
    /\ tk.line # <<>>
    /\ \E r \in {parse_token(tk.line, tk.in_comment)} :
          IF r.err # NoErr
          THEN /\ Raise(r.err)
               /\ tk' = [tk EXCEPT !.call = [line |-> tk.line, in_comment |-> tk.in_comment]]
               /\ UNCHANGED toks
          ELSE /\ tk' = [tk EXCEPT !.line = r.line,
                                   !.in_comment = r.in_comment,
                                   !.call = [line |-> tk.line,
                                             in_comment |-> tk.in_comment]]
               /\ toks' = IF r.token = NoneVal THEN toks ELSE Append(toks, r.token)
               /\ UNCHANGED <<pc, out>>
    /\ UNCHANGED <<symVars, ast, gen, pos, last, vm, hack>>

\* gen_tokens_for_line, line 75: nothing is left of the line
TokLineEnd ==
    /\ pc = "line"
    /\ tk.line = <<>>
    /\ pc' = "lines"
    /\ UNCHANGED <<symVars, tk, toks, ast, gen, pos, last, out, vm, hack>>

\* gen_tokens_for_lines: the lines are exhausted
TokReturn ==
    /\ pc = "lines"
    /\ tk.line_num = Len(tk.lines)
    /\ pc' = "tokenized"
    /\ UNCHANGED <<symVars, tk, toks, ast, gen, pos, last, out, vm, hack>>

TokNext == TokNextLine \/ TokParseToken \/ TokLineEnd \/ TokReturn

SpecTok == TokInit /\ [][TokNext]_vars

\* ------------------------------------------------------------------------
\* Claims about the tokenizer (checked under SpecTok)
\* ------------------------------------------------------------------------

\* the first position of p in a line that holds it
FirstOccurrence(line, p) ==
    CHOOSE i \in Occurrences(line, p) : \A j \in Occurrences(line, p) : i <= j

\* C13: a call of _parse_token inside a block comment on a text that holds
\* */ leaves the comment at the first */ and hands back the text right after
\* it, so that every token after that */ is still to be emitted, also when a
\* further comment follows on the line.
C13_CommentEndsAtFirstClose ==
    (/\ pc = "line"
     /\ tk.call.in_comment
     /\ Occurrences(tk.call.line, <<"*", "/">>) # {}) =>
        /\ ~tk.in_comment
        /\ tk.line = Drop(tk.call.line, FirstOccurrence(tk.call.line, <<"*", "/">>) + 1)

\* a line of white space only, or of white space and comments only: inside a
\* block comment, a line without */; else white space followed by nothing,
\* by a // comment, or by one /* ... */ comment and white space
CommentOnly(line, in_comment) ==
    IF in_comment THEN Occurrences(line, <<"*", "/">>) = {}
    ELSE \/ RestOf(line) = <<>>
         \/ StartsWith(RestOf(line), <<"/", "/">>)
         \/ /\ StartsWith(RestOf(line), <<"/", "*">>)
            /\ Occurrences(Drop(RestOf(line), 2), <<"*", "/">>) # {}
            /\ RestOf(Drop(Drop(RestOf(line), 2),
                           FirstOccurrence(Drop(RestOf(line), 2), <<"*", "/">>) + 1)) = <<>>

\* C14: a line of white space and comments only yields no token and raises
\* no TokenizeError, so that the lines after it are tokenized.
C14_CommentLinesYieldNothing ==
    (/\ pc \in {"line", "lines", "raised"}
     /\ tk.line_num >= 1
     /\ CommentOnly(tk.lines[tk.line_num], tk.start.in_comment)) =>
        /\ pc # "raised"
        /\ Len(toks) = tk.start.ntoks

\* C15: the value of every IntegerConstant token the tokenizer emits is in
\* 0..32767.
C15_IntegerConstantInRange ==
    \A i \in 1..Len(toks) :
        toks[i].tag = "IntegerConstant" => PyInt(toks[i].value) \in 0..32767

\* ------------------------------------------------------------------------
\* Claims about the parser (checked under Spec)
\* ------------------------------------------------------------------------

\* the positions of the tokens of a file that satisfy a test, and the first
\* of them after position i
SymbolsAt(values) == {j \in 1..Len(toks) : is_type(toks[j], "Symbol", values)}
FirstAfter(S, i) == CHOOSE j \in S : j > i /\ \A k \in S : k > i => j <= k

\* the commas between the parentheses at open and close that are in no
\* parentheses of their own
CommasOfList(open, close) ==
    {j \in SymbolsAt({","}) :
        /\ open < j /\ j < close
        /\ Cardinality({k \in SymbolsAt({"("}) : open < k /\ k < j})
              = Cardinality({k \in SymbolsAt({")"}) : open < k /\ k < j})}

\* the tokens from ( at open to ) at close are a list of n elements in the
\* form (x (',' x)*)?: the parser takes a comma only right before an element,
\* so the form is met when the first element has none and there are n - 1
WellFormedList(open, close, n) ==
    IF n = 0 THEN close = open + 1
    ELSE /\ ~is_type(toks[open + 1], "Symbol", {","})
         /\ Cardinality(CommasOfList(open, close)) = n - 1

\* the positions of the subroutine headers of the file, in order
HeadersAt ==
    {j \in 1..Len(toks) : is_type(toks[j], "Keyword", {"constructor", "function", "method"})}
HeaderOf(k) ==
    CHOOSE j \in HeadersAt : Cardinality({m \in HeadersAt : m < j}) = k - 1

\* C16: a file the parser turns into an AST has every parameter list, and the
\* argument list of a do statement that is the first of its subroutine, in
\* the form (x (',' x)*)?: a list that lacks a comma between two elements or
\* begins with a comma is rejected with ParseError.
C16_ListsNeedCommas ==
    (pc = "parsed") =>
        \A k \in 1..Len(ast.val.subroutine_decs) :
            LET dec == ast.val.subroutine_decs[k]
                open == HeaderOf(k) + 3
                close == FirstAfter(SymbolsAt({")"}), open)
                stms == dec.body.statements.statements
                do == FirstAfter({j \in 1..Len(toks) : is_type(toks[j], "Keyword", {"do"})},
                                 close)
                arg_open == FirstAfter(SymbolsAt({"("}), do)
                arg_close == FirstAfter(SymbolsAt({";"}), do) - 1
            IN  /\ WellFormedList(open, close, Len(dec.parameters.parameters))
                /\ (stms # <<>> /\ stms[1].tag = "DoStatement") =>
                       WellFormedList(arg_open, arg_close, Len(stms[1].term.arguments))

\* ------------------------------------------------------------------------
\* vm_translator.py: class CodeGenerator, the assembly it returns.  A line
\* of assembly is a record: a comment line, an A-instruction of a number or
\* of a symbol, a label definition (symbol), or a C-instruction with its
\* dest, comp and jump parts ("" for a part that is absent).  The comment
\* that ends a line is left out.  A symbol is a sequence of characters.
\* ------------------------------------------------------------------------
AsmComment == [op |-> "//"]
AtNum(n) == [op |-> "@", kind |-> "num", value |-> n]
AtSym(symbol) == [op |-> "@", kind |-> "sym", value |-> symbol]
LabelDef(symbol) == [op |-> "()", value |-> symbol]
CInstr(dest, comp, jump) == [op |-> "C", dest |-> dest, comp |-> comp, jump |-> jump]

\* the symbols the methods write out
SymSP == <<"S", "P">>
SymLCL == <<"L", "C", "L">>
SymARG == <<"A", "R", "G">>
SymTHIS == <<"T", "H", "I", "S">>
SymTHAT == <<"T", "H", "A", "T">>
SymR(n) == <<"R">> \o Str(n)

\* the characters of a command word
WordChars(argument) ==
    CASE argument = "eq" -> <<"e", "q">>
      [] argument = "gt" -> <<"g", "t">>
      [] argument = "lt" -> <<"l", "t">>

\* CodeGenerator.__init__; static_prefix is set by main before a file is
\* translated
VMCodeGenerator(verbose) ==
    [static_prefix |-> NoneVal, uniq_int |-> 0,
     current_fn_name |-> <<"S", "y", "s", ".", "i", "n", "i", "t">>,
     verbose |-> verbose]

AOk(lines, cg) == [err |-> NoErr, lines |-> lines, cg |-> cg]
AErr(err, cg) == [err |-> err, lines |-> <<>>, cg |-> cg]

\* `[...] if self._verbose else []`
IfVerbose(cg, lines) == IF cg.verbose THEN lines ELSE <<>>

\* CodeGenerator._push_d_sp_inc
asm_push_d_sp_inc ==
    <<AtSym(SymSP), CInstr("A", "M", ""), CInstr("M", "D", ""),
      AtSym(SymSP), CInstr("M", "M+1", "")>>

\* CodeGenerator._sp_dec_pop_d
asm_sp_dec_pop_d == <<AtSym(SymSP), CInstr("AM", "M-1", ""), CInstr("D", "M", "")>>

\* CodeGenerator._translate_memory_segment
asm_translate_memory_segment(memory_segment) ==
    CASE memory_segment = "local" -> SymLCL
      [] memory_segment = "argument" -> SymARG
      [] memory_segment = "this" -> SymTHIS
      [] memory_segment = "that" -> SymTHAT

\* a generator that takes no new number
NextUniq_same(cg) == cg

\* `self._uniq_int += 1`
NextUniq(cg) == [cg EXCEPT !.uniq_int = @ + 1]

\* a _generate_binary_op that takes the operands of sub the other way round
asm_generate_binary_op_swapped(lines, argument) ==
    lines \o asm_sp_dec_pop_d
          \o <<AtSym(SymSP), CInstr("A", "M-1", ""),
               CInstr("M", CASE argument = "add" -> "M+D" [] argument = "sub" -> "D-M"
                             [] argument = "and" -> "D&M" [] argument = "or" -> "D|M",
                      "")>>

\* CodeGenerator._generate_binary_op
asm_generate_binary_op(lines, argument) ==
    lines \o asm_sp_dec_pop_d
          \o <<AtSym(SymSP), CInstr("A", "M-1", ""),
               CInstr("M", CASE argument = "add" -> "M+D" [] argument = "sub" -> "M-D"
                             [] argument = "and" -> "D&M" [] argument = "or" -> "D|M",
                      "")>>

\* CodeGenerator._generate_comparison: the two labels carry _uniq_int, which
\* is then incremented
asm_generate_comparison(cg, lines, argument) ==
    LET true_label == WordChars(argument) \o <<".", "t", "r", "u", "e">> \o Str(cg.uniq_int)
        end_label == WordChars(argument) \o <<".", "e", "n", "d">> \o Str(cg.uniq_int)
    IN  AOk(lines \o asm_sp_dec_pop_d
                  \o <<AtSym(SymSP), CInstr("A", "M-1", ""), CInstr("D", "M-D", ""),
                       AtSym(true_label),
                       CInstr("", "D", CASE argument = "eq" -> "JEQ"
                                         [] argument = "gt" -> "JGT"
                                         [] argument = "lt" -> "JLT"),
                       AtSym(SymSP), CInstr("A", "M-1", ""), CInstr("M", "0", ""),
                       AtSym(end_label), CInstr("", "0", "JMP"),
                       LabelDef(true_label),
                       AtSym(SymSP), CInstr("A", "M-1", ""), CInstr("M", "-1", ""),
                       LabelDef(end_label)>>,
            NextUniq(cg))

\* CodeGenerator._generate_unary_op
asm_generate_unary_op(lines, argument) ==
    lines \o <<AtSym(SymSP), CInstr("A", "M-1", ""),
               CInstr("M", IF argument = "neg" THEN "-M" ELSE "!M", "")>>

\* CodeGenerator.generate_arithmetic
asm_generate_arithmetic(cg, argument) ==
    IF argument \in {"add", "sub", "and", "or"}
    THEN AOk(asm_generate_binary_op(IfVerbose(cg, <<AsmComment>>), argument), cg)
    ELSE IF argument \in {"eq", "gt", "lt"}
    THEN asm_generate_comparison(cg, IfVerbose(cg, <<AsmComment>>), argument)
    ELSE IF argument \in {"neg", "not"}
    THEN AOk(asm_generate_unary_op(IfVerbose(cg, <<AsmComment>>), argument), cg)
    ELSE AOk(IfVerbose(cg, <<AsmComment>>), cg)

\* CodeGenerator._push_constant
asm_push_constant(argument) ==
    (IF argument \in {0, 1}
     THEN <<CInstr("D", IF argument = 0 THEN "0" ELSE "1", "")>>
     ELSE <<AtNum(argument), CInstr("D", "A", "")>>) \o asm_push_d_sp_inc

\* CodeGenerator.generate_push.  The tests `0 > argument > 1` and
\* `0 > argument > 7` are chained comparisons: 0 > argument and argument > 1.
asm_generate_push(cg, memory_segment, argument) ==
    IF cg.static_prefix = NoneVal THEN AErr("RuntimeError", cg)
    ELSE IF memory_segment \in {"local", "argument", "this", "that"}
    THEN AOk(IfVerbose(cg, <<AsmComment>>)
                 \o <<AtNum(argument), CInstr("D", "A", ""),
                      AtSym(asm_translate_memory_segment(memory_segment)),
                      CInstr("A", "D+M", ""), CInstr("D", "M", "")>>
                 \o asm_push_d_sp_inc, cg)
    ELSE IF memory_segment = "static"
    THEN AOk(IfVerbose(cg, <<AsmComment>>)
                 \o <<AtSym(cg.static_prefix \o <<".">> \o Str(argument)),
                      CInstr("D", "M", "")>>
                 \o asm_push_d_sp_inc, cg)
    ELSE IF memory_segment = "constant"
    THEN AOk(IfVerbose(cg, <<AsmComment>>) \o asm_push_constant(argument), cg)
    ELSE IF memory_segment = "pointer"
    THEN IF 0 > argument /\ argument > 1 THEN AErr("InvalidArgumentError", cg)
         ELSE AOk(IfVerbose(cg, <<AsmComment>>)
                      \o <<AtSym(SymR(argument + 3)), CInstr("D", "M", "")>>
                      \o asm_push_d_sp_inc, cg)
    ELSE IF memory_segment = "temp"
    THEN IF 0 > argument /\ argument > 7 THEN AErr("InvalidArgumentError", cg)
         ELSE AOk(IfVerbose(cg, <<AsmComment>>)
                      \o <<AtSym(SymR(argument + 5)), CInstr("D", "M", "")>>
                      \o asm_push_d_sp_inc, cg)
    ELSE AErr("RuntimeError", cg)

\* CodeGenerator.generate_pop
asm_generate_pop(cg, memory_segment, argument) ==
    IF cg.static_prefix = NoneVal THEN AErr("RuntimeError", cg)
    ELSE IF memory_segment \in {"local", "argument", "this", "that"}
    THEN AOk(IfVerbose(cg, <<AsmComment>>)
                 \o <<AtNum(argument), CInstr("D", "A", ""),
                      AtSym(asm_translate_memory_segment(memory_segment)),
                      CInstr("D", "D+M", ""), AtSym(SymR(13)), CInstr("M", "D", "")>>
                 \o asm_sp_dec_pop_d
                 \o <<AtSym(SymR(13)), CInstr("A", "M", ""), CInstr("M", "D", "")>>, cg)
    ELSE IF memory_segment = "static"
    THEN AOk(IfVerbose(cg, <<AsmComment>>) \o asm_sp_dec_pop_d
                 \o <<AtSym(cg.static_prefix \o <<".">> \o Str(argument)),
                      CInstr("M", "D", "")>>, cg)
    ELSE IF memory_segment = "pointer"
    THEN IF 0 > argument /\ argument > 1 THEN AErr("InvalidArgumentError", cg)
         ELSE AOk(IfVerbose(cg, <<AsmComment>>) \o asm_sp_dec_pop_d
                      \o <<AtSym(SymR(argument + 3)), CInstr("M", "D", "")>>, cg)
    ELSE IF memory_segment = "temp"
    THEN IF 0 > argument /\ argument > 7 THEN AErr("InvalidArgumentError", cg)
         ELSE AOk(IfVerbose(cg, <<AsmComment>>) \o asm_sp_dec_pop_d
                      \o <<AtSym(SymR(argument + 5)), CInstr("M", "D", "")>>, cg)
    ELSE IF memory_segment = "constant" THEN AErr("InvalidArgumentError", cg)
    ELSE AErr("RuntimeError", cg)

\* the label of a symbol in the current function: f"{_current_fn_name}${symbol}"
FnLabel(cg, symbol) == cg.current_fn_name \o <<"$">> \o symbol

\* CodeGenerator.generate_label: the comment and the label definition are
\* both in the list that is returned only if _verbose
asm_generate_label(cg, symbol) ==
    AOk(IfVerbose(cg, <<AsmComment, LabelDef(FnLabel(cg, symbol))>>), cg)

\* CodeGenerator.generate_goto: likewise
asm_generate_goto(cg, symbol) ==
    AOk(IfVerbose(cg, <<AsmComment, AtSym(FnLabel(cg, symbol)), CInstr("", "0", "JMP")>>),
        cg)

\* CodeGenerator.generate_if_goto
asm_generate_if_goto(cg, symbol) ==
    AOk(IfVerbose(cg, <<AsmComment>>) \o asm_sp_dec_pop_d
            \o <<AtSym(FnLabel(cg, symbol)), CInstr("", "D", "JNE")>>, cg)

\* CodeGenerator.generate_function: num_locals times _push_d_sp_inc
RECURSIVE asm_push_locals(_)
asm_push_locals(num_locals) ==
    IF num_locals = 0 THEN <<>>
    ELSE asm_push_d_sp_inc \o asm_push_locals(num_locals - 1)

asm_generate_function(cg, name, num_locals) ==
    AOk(IfVerbose(cg, <<AsmComment>>) \o <<LabelDef(name), CInstr("D", "0", "")>>
            \o asm_push_locals(num_locals),
        [cg EXCEPT !.current_fn_name = name])

\* a generate_return that keeps the return address in the frame until the
\* end: *ARG is written first, and the address is read from *(R13 - 5) last
asm_generate_return_late(cg) ==
    AOk(IfVerbose(cg, <<AsmComment>>)
            \o <<AtSym(SymLCL), CInstr("D", "M", ""), AtSym(SymR(13)), CInstr("M", "D", ""),
                 AtSym(SymSP), CInstr("A", "M-1", ""), CInstr("D", "M", ""),
                 AtSym(SymARG), CInstr("A", "M", ""), CInstr("M", "D", ""),
                 AtSym(SymARG), CInstr("D", "M", ""), AtSym(SymSP), CInstr("M", "D+1", ""),
                 AtSym(SymR(13)), CInstr("D", "M", ""), CInstr("A", "D-1", ""),
                 CInstr("D", "M", ""), AtSym(SymTHAT), CInstr("M", "D", ""),
                 AtSym(SymR(13)), CInstr("D", "M", ""), AtNum(2), CInstr("A", "D-A", ""),
                 CInstr("D", "M", ""), AtSym(SymTHIS), CInstr("M", "D", ""),
                 AtSym(SymR(13)), CInstr("D", "M", ""), AtNum(3), CInstr("A", "D-A", ""),
                 CInstr("D", "M", ""), AtSym(SymARG), CInstr("M", "D", ""),
                 AtSym(SymR(13)), CInstr("D", "M", ""), AtNum(4), CInstr("A", "D-A", ""),
                 CInstr("D", "M", ""), AtSym(SymLCL), CInstr("M", "D", ""),
                 AtSym(SymR(13)), CInstr("D", "M", ""), AtNum(5), CInstr("A", "D-A", ""),
                 CInstr("D", "M", ""), AtSym(SymR(14)), CInstr("M", "D", ""),
                 AtSym(SymR(14)), CInstr("A", "M", ""), CInstr("", "0", "JMP")>>,
        cg)

\* CodeGenerator.generate_return
asm_generate_return(cg) ==
    AOk(IfVerbose(cg, <<AsmComment>>)
            \o <<AtSym(SymLCL), CInstr("D", "M", ""), AtSym(SymR(13)), CInstr("M", "D", ""),
                 AtNum(5), CInstr("A", "D-A", ""), CInstr("D", "M", ""),
                 AtSym(SymR(14)), CInstr("M", "D", ""),
                 AtSym(SymSP), CInstr("A", "M-1", ""), CInstr("D", "M", ""),
                 AtSym(SymARG), CInstr("A", "M", ""), CInstr("M", "D", ""),
                 AtSym(SymARG), CInstr("D", "M", ""), AtSym(SymSP), CInstr("M", "D+1", ""),
                 AtSym(SymR(13)), CInstr("D", "M", ""), CInstr("A", "D-1", ""),
                 CInstr("D", "M", ""), AtSym(SymTHAT), CInstr("M", "D", ""),
                 AtSym(SymR(13)), CInstr("D", "M", ""), AtNum(2), CInstr("A", "D-A", ""),
                 CInstr("D", "M", ""), AtSym(SymTHIS), CInstr("M", "D", ""),
                 AtSym(SymR(13)), CInstr("D", "M", ""), AtNum(3), CInstr("A", "D-A", ""),
                 CInstr("D", "M", ""), AtSym(SymARG), CInstr("M", "D", ""),
                 AtSym(SymR(13)), CInstr("D", "M", ""), AtNum(4), CInstr("A", "D-A", ""),
                 CInstr("D", "M", ""), AtSym(SymLCL), CInstr("M", "D", ""),
                 AtSym(SymR(14)), CInstr("A", "M", ""), CInstr("", "0", "JMP")>>,
        cg)

\* CodeGenerator.generate_call: the loop over LCL, ARG, THIS, THAT
asm_push_segment(segment) == <<AtSym(segment), CInstr("D", "M", "")>> \o asm_push_d_sp_inc

\* the return label of a call: f"RETURN_{_uniq_int}"
ReturnLabel(n) == <<"R", "E", "T", "U", "R", "N", "_">> \o Str(n)

\* CodeGenerator.generate_call
asm_generate_call(cg, name, num_arguments) ==
    AOk(IfVerbose(cg, <<AsmComment>>)
            \o <<AtSym(ReturnLabel(cg.uniq_int)), CInstr("D", "A", "")>>
            \o asm_push_d_sp_inc
            \o asm_push_segment(SymLCL) \o asm_push_segment(SymARG)
            \o asm_push_segment(SymTHIS) \o asm_push_segment(SymTHAT)
            \o <<AtNum(num_arguments), CInstr("D", "A", ""), AtNum(5),
                 CInstr("D", "D+A", ""), AtSym(SymSP), CInstr("D", "M-D", ""),
                 AtSym(SymARG), CInstr("M", "D", "")>>
            \o <<AtSym(SymSP), CInstr("D", "M", ""), AtSym(SymLCL), CInstr("M", "D", "")>>
            \o <<AtSym(name), CInstr("", "0", "JMP")>>
            \o <<LabelDef(ReturnLabel(cg.uniq_int))>>,
        NextUniq(cg))

\* CodeGenerator.generate_init
asm_generate_init(cg) ==
    Bind([call \in {asm_generate_call(cg, <<"S", "y", "s", ".", "i", "n", "i", "t">>, 0)} |->
          AOk(IfVerbose(cg, <<AsmComment>>)
                  \o <<AtNum(256), CInstr("D", "A", ""), AtSym(SymSP), CInstr("M", "D", "")>>
                  \o call.lines,
              call.cg)])

\* ------------------------------------------------------------------------
\* assembler.py: the symbols of an assembly file.  A label stands for the
\* number of instructions before its definition (fill_rom_symbol_table, the
\* last definition of a symbol wins); another symbol is looked up in the
\* RamSymbolTable, which gives a new symbol the next address from 16 on.
\* ------------------------------------------------------------------------
IsInstruction(l) == l.op \in {"@", "C"}
IsLabelDef(l, symbol) == l.op = "()" /\ l.value = symbol
IsAtSym(l, symbol) == l.op = "@" /\ l.kind = "sym" /\ l.value = symbol

\* the number of instructions among the first n lines
InstructionsBefore(asm, n) == Cardinality({j \in 1..n : IsInstruction(asm[j])})

\* fill_rom_symbol_table
rom_symbol_table(asm) ==
    LET labels == {asm[i].value : i \in {j \in 1..Len(asm) : asm[j].op = "()"}}
        lastDef(s) == CHOOSE i \in 1..Len(asm) :
                         /\ IsLabelDef(asm[i], s)
                         /\ \A j \in (i + 1)..Len(asm) : ~IsLabelDef(asm[j], s)
    IN  [s \in labels |-> InstructionsBefore(asm, lastDef(s))]

\* RamSymbolTable.__init__
RamPredefined ==
    [s \in {SymSP, SymLCL, SymARG, SymTHIS, SymTHAT,
            <<"S", "C", "R", "E", "E", "N">>, <<"K", "B", "D">>}
           \cup {SymR(x) : x \in 0..15} |->
        IF s = SymSP THEN 0 ELSE IF s = SymLCL THEN 1 ELSE IF s = SymARG THEN 2
        ELSE IF s = SymTHIS THEN 3 ELSE IF s = SymTHAT THEN 4
        ELSE IF s = <<"S", "C", "R", "E", "E", "N">> THEN 16384
        ELSE IF s = <<"K", "B", "D">> THEN 24576
        ELSE PyInt(Tail(s))]

\* RamSymbolTable.location over the symbols of gen_translated_symbols, in
\* the order in which they are met
ram_symbol_table(asm, rom_table) ==
    LET used == {asm[i].value :
                    i \in {j \in 1..Len(asm) : asm[j].op = "@" /\ asm[j].kind = "sym"}}
        fresh == (used \ DOMAIN rom_table) \ DOMAIN RamPredefined
        first(s) == CHOOSE i \in 1..Len(asm) :
                       /\ IsAtSym(asm[i], s)
                       /\ \A j \in 1..(i - 1) : ~IsAtSym(asm[j], s)
    IN  [s \in fresh \cup DOMAIN RamPredefined |->
            IF s \in DOMAIN RamPredefined THEN RamPredefined[s]
            ELSE 16 + Cardinality({t \in fresh : first(t) < first(s)})]

\* gen_instructions and gen_translated_symbols: the instructions of the
\* file, every symbol replaced by its number
gen_translated_symbols(asm) ==
    LET instructions == SelectSeq(asm, IsInstruction)
        rom_table == rom_symbol_table(asm)
        ram_table == ram_symbol_table(asm, rom_table)
    IN  [i \in 1..Len(instructions) |->
            IF instructions[i].op = "@" /\ instructions[i].kind = "sym"
            THEN AtNum(IF instructions[i].value \in DOMAIN rom_table
                       THEN rom_table[instructions[i].value]
                       ELSE ram_table[instructions[i].value])
            ELSE instructions[i]]

\* ------------------------------------------------------------------------
\* The machine the assembled instructions run on: registers A and D, the
\* program counter ip (the number of an instruction, from 0) and the RAM.
\* A value is a 16-bit word, read as a signed number.
\* ------------------------------------------------------------------------
\* a 16-bit word as a signed number, and a bitwise operation on two words
Signed(x) == IF x % 65536 >= 32768 THEN (x % 65536) - 65536 ELSE x % 65536

RECURSIVE BitOp(_, _, _, _)
BitOp(op, x, y, n) ==
    IF n = 0 THEN 0
    ELSE (IF op = "&" THEN (IF x % 2 = 1 /\ y % 2 = 1 THEN 1 ELSE 0)
          ELSE (IF x % 2 = 1 \/ y % 2 = 1 THEN 1 ELSE 0))
         + 2 * BitOp(op, x \div 2, y \div 2, n - 1)

\* the value of the comp part of a C-instruction
Comp(comp, a, d, m) ==
    Signed(CASE comp = "0" -> 0
             [] comp = "1" -> 1
             [] comp = "-1" -> -1
             [] comp = "D" -> d
             [] comp = "A" -> a
             [] comp = "M" -> m
             [] comp = "-M" -> -m
             [] comp = "!M" -> -m - 1
             [] comp = "M+1" -> m + 1
             [] comp = "M-1" -> m - 1
             [] comp = "D+1" -> d + 1
             [] comp = "D-1" -> d - 1
             [] comp = "D+A" -> d + a
             [] comp = "D-A" -> d - a
             [] comp \in {"D+M", "M+D"} -> d + m
             [] comp = "M-D" -> m - d
             [] comp = "D-M" -> d - m
             [] comp = "D&M" -> BitOp("&", d % 65536, m % 65536, 16)
             [] comp = "D|M" -> BitOp("|", d % 65536, m % 65536, 16))

\* whether the jump part of a C-instruction jumps on a value
Jumps(jump, value) ==
    CASE jump = "" -> FALSE
      [] jump = "JGT" -> value > 0
      [] jump = "JEQ" -> value = 0
      [] jump = "JGE" -> value >= 0
      [] jump = "JLT" -> value < 0
      [] jump = "JNE" -> value # 0
      [] jump = "JLE" -> value <= 0
      [] jump = "JMP" -> TRUE

\* the letters of the dest part
DestHas(dest, letter) ==
    CASE letter = "A" -> dest \in {"A", "AM", "AD", "AMD"}
      [] letter = "D" -> dest \in {"D", "MD", "AD", "AMD"}
      [] letter = "M" -> dest \in {"M", "MD", "AM", "AMD"}

\* ------------------------------------------------------------------------
\* vm_translator.py: main.  One .vm file is translated, a line of it at a
\* time, with the bootstrap code first when the input is a directory; the
\* assembly written is then assembled and run.  vm.commands is the log of
\* the generate_ calls made: the command, _uniq_int before the call, the
\* lines returned and the place of the first of them in the output.
\* ------------------------------------------------------------------------
SysInit == <<"S", "y", "s", ".", "i", "n", "i", "t">>

\* the dispatch of main on the command type, lines 473-498
asm_generate(cg, c) ==
    CASE c.command_type = "ARITHMETIC" -> asm_generate_arithmetic(cg, c.arguments[1])
      [] c.command_type = "PUSH" -> asm_generate_push(cg, c.arguments[1], c.arguments[2])
      [] c.command_type = "POP" -> asm_generate_pop(cg, c.arguments[1], c.arguments[2])
      [] c.command_type = "LABEL" -> asm_generate_label(cg, c.arguments[1])
      [] c.command_type = "GOTO" -> asm_generate_goto(cg, c.arguments[1])
      [] c.command_type = "IFGOTO" -> asm_generate_if_goto(cg, c.arguments[1])
      [] c.command_type = "FUNCTION" ->
            asm_generate_function(cg, c.arguments[1], c.arguments[2])
      [] c.command_type = "CALL" -> asm_generate_call(cg, c.arguments[1], c.arguments[2])
      [] c.command_type = "RETURN" -> asm_generate_return(cg)

LogEntry(command_type, arguments, cg, r, asm) ==
    [command_type |-> command_type, arguments |-> arguments, uniq_int |-> cg.uniq_int,
     fn |-> r.cg.current_fn_name, lines |-> r.lines, err |-> r.err, first |-> Len(asm) + 1]

\* main, lines 464-468: the generator is made, the bootstrap code written
\* for a directory, and static_prefix set to the stem of the file
TrStart ==
    /\ pc = "vm_start"
    /\ \E r \in {IF vm.bootstrap THEN asm_generate_init(vm.cg) ELSE AOk(<<>>, vm.cg)} :
          vm' = [vm EXCEPT !.cg = [r.cg EXCEPT !.static_prefix = <<"S", "y", "s">>],
                           !.asm = r.lines,
                           !.commands =
                               IF vm.bootstrap
                               THEN <<LogEntry("INIT", <<SysInit, 0>>, vm.cg, r, <<>>)>>
                               ELSE <<>>]
    /\ pc' = "vm_lines"
    /\ UNCHANGED <<symVars, toks, ast, gen, pos, last, out, tk, hack>>

\* main, lines 470-500: one turn of the loop over the commands of the file
TrCommand ==
    /\ pc = "vm_lines"
    /\ vm.line_num < Len(vm.lines)
    /\ \E c \in {VM_advance(vm.lines[vm.line_num + 1])} :
          IF c.err # NoErr
          THEN /\ Raise(c.err)
               /\ vm' = [vm EXCEPT !.line_num = @ + 1]
          ELSE IF c.command_type = "NONE"
          THEN /\ vm' = [vm EXCEPT !.line_num = @ + 1]
               /\ UNCHANGED <<pc, out>>
          ELSE \E r \in {asm_generate(vm.cg, c)} :
                  /\ vm' = [vm EXCEPT !.line_num = @ + 1,
                                      !.cg = r.cg,
                                      !.asm = @ \o r.lines,
                                      !.commands =
                                          Append(@, LogEntry(c.command_type, c.arguments,
                                                             vm.cg, r, vm.asm))]
                  /\ IF r.err # NoErr THEN Raise(r.err) ELSE UNCHANGED <<pc, out>>
    /\ UNCHANGED <<symVars, toks, ast, gen, pos, last, tk, hack>>

\* main: the file has no further line
TrEnd ==
    /\ pc = "vm_lines"
    /\ vm.line_num = Len(vm.lines)
    /\ pc' = "translated"
    /\ UNCHANGED <<symVars, toks, ast, gen, pos, last, out, vm, tk, hack>>

\* the RAM of the machine
RamAddrs == 0..RamTop

\* the number of the first instruction of a logged command
FirstInstruction(asm, command) == InstructionsBefore(asm, command.first - 1)

\* the number of the last instruction of a logged command
LastInstruction(asm, command) ==
    InstructionsBefore(asm, command.first - 1 + Len(command.lines)) - 1

\* assembler.py main: a program is assembled and loaded, once the stack
\* pointer is set: by the bootstrap code of a directory, or before the run.
\* calls, returns and jumps say where the code of the call and of the return
\* commands is, for the record of frames kept while the program runs.
AsmLoad ==
    /\ pc = "translated"
    /\ vm.bootstrap \/ vm.ram[0] > 0
    /\ vm' = [vm EXCEPT
                 !.rom = gen_translated_symbols(vm.asm),
                 !.labels = rom_symbol_table(vm.asm),
                 !.calls = {[at |-> FirstInstruction(vm.asm, vm.commands[i]),
                             m |-> vm.commands[i].uniq_int,
                             k |-> vm.commands[i].arguments[2]] :
                               i \in {j \in 1..Len(vm.commands) :
                                         vm.commands[j].command_type = "CALL"}},
                 !.returns = {[at |-> FirstInstruction(vm.asm, vm.commands[i]),
                               jump |-> LastInstruction(vm.asm, vm.commands[i])] :
                                 i \in {j \in 1..Len(vm.commands) :
                                           vm.commands[j].command_type = "RETURN"}}]
    /\ pc' = "exec"
    /\ UNCHANGED <<symVars, toks, ast, gen, pos, last, out, tk, hack>>

\* the frame record: entering the code of a call notes the registers,
\* entering the code of a return notes the value on top of the stack, and
\* the jump that ends a return takes the newest frame off
FramesAt(m) ==
    LET entered == {c \in m.calls : c.at = m.ip}
    IN  IF entered = {} THEN m.frames
        ELSE Append(m.frames,
                    [m |-> (CHOOSE c \in entered : TRUE).m,
                     k |-> (CHOOSE c \in entered : TRUE).k,
                     SP |-> m.ram[0], LCL |-> m.ram[1], ARG |-> m.ram[2],
                     THIS |-> m.ram[3], THAT |-> m.ram[4]])

LeavingAt(m) ==
    IF \E r \in m.returns : r.at = m.ip
    THEN IF m.ram[0] - 1 \in RamAddrs THEN [v |-> m.ram[m.ram[0] - 1]] ELSE NoneVal
    ELSE m.leaving

\* one instruction of the program is executed
Execute(m) ==
    LET ins == m.rom[m.ip + 1]
        frames == FramesAt(m)
        leaving == LeavingAt(m)
        returning == \E r \in m.returns : r.jump = m.ip
    IN  IF ins.op = "@"
        THEN [m EXCEPT !.a = ins.value, !.ip = @ + 1, !.steps = @ + 1,
                       !.frames = frames, !.leaving = leaving, !.resumed = NoneVal]
        ELSE LET value == Comp(ins.comp, m.a, m.d, IF m.a \in RamAddrs THEN m.ram[m.a] ELSE 0)
             IN  [m EXCEPT
                     !.a = IF DestHas(ins.dest, "A") THEN value ELSE @,
                     !.d = IF DestHas(ins.dest, "D") THEN value ELSE @,
                     !.ram = IF DestHas(ins.dest, "M") THEN [@ EXCEPT ![m.a] = value] ELSE @,
                     !.ip = IF Jumps(ins.jump, value) THEN m.a ELSE @ + 1,
                     !.steps = @ + 1,
                     !.frames = IF returning /\ frames # <<>>
                                THEN SubSeq(frames, 1, Len(frames) - 1) ELSE frames,
                     !.leaving = leaving,
                     !.resumed = IF returning
                                 THEN [target |-> m.a,
                                       frame |-> IF frames # <<>> THEN frames[Len(frames)]
                                                 ELSE NoneVal,
                                       leaving |-> leaving]
                                 ELSE NoneVal]

\* whether the instruction at ip reads or writes M outside the RAM of the model
OutOfRam(m) ==
    /\ m.ip \in 0..(Len(m.rom) - 1)
    /\ LET ins == m.rom[m.ip + 1]
       IN
        /\ ins.op = "C"
        /\ m.a \notin RamAddrs
        /\ \/ DestHas(ins.dest, "M")
           \/ ins.comp \in {"M", "-M", "!M", "M+1", "M-1", "D+M", "M+D", "M-D", "D&M", "D|M"}

AsmStep ==
    /\ pc = "exec"
    /\ vm.steps < MaxSteps
    /\ vm.ip \in 0..(Len(vm.rom) - 1)
    /\ ~OutOfRam(vm)
    /\ vm' = Execute(vm)
    /\ UNCHANGED <<symVars, toks, pc, ast, gen, pos, last, out, tk, hack>>

\* the run leaves the program or the RAM of the model
AsmHalt ==
    /\ pc = "exec"
    /\ \/ vm.ip \notin 0..(Len(vm.rom) - 1)
       \/ OutOfRam(vm)
    /\ pc' = "halted"
    /\ UNCHANGED <<symVars, toks, ast, gen, pos, last, out, vm, tk, hack>>

\* ------------------------------------------------------------------------
\* The .vm files translated: a call of f with k arguments from Sys.init, f
\* with n locals and one of several bodies, and files of the other commands.
\* ------------------------------------------------------------------------
VPush(memory_segment, n) == <<"push", memory_segment, Str(n)>>
VPop(memory_segment, n) == <<"pop", memory_segment, Str(n)>>
VCall(name, k) == <<"call", name, Str(k)>>
VFunction(name, n) == <<"function", name, Str(n)>>
VLabel(symbol) == <<"label", symbol>>
VGoto(symbol) == <<"goto", symbol>>
VIfGoto(symbol) == <<"if-goto", symbol>>

VSysInit == <<VFunction(SysInit, 0)>>
VEnd == <<VLabel(<<"E", "N", "D">>), VGoto(<<"E", "N", "D">>)>>

\* k constants pushed as the arguments of a call
RECURSIVE VArguments(_)
VArguments(k) == IF k = 0 THEN <<>> ELSE VArguments(k - 1) \o <<VPush("constant", 10 + k)>>

\* the bodies of f: a constant; a sum over an argument and a local, THIS
\* and THAT changed; a call of g and a comparison
VBodies ==
    { <<VPush("constant", 7)>>,
      <<VPush("argument", 0), VPop("local", 0), VPush("constant", 8), VPop("pointer", 0),
        VPush("constant", 9), VPop("pointer", 1), VPush("local", 0), VPush("constant", 1),
        <<"add">>>>,
      <<VPush("constant", 2), VCall(<<"g">>, 1), VPush("constant", 0), <<"lt">>>> }

VCallFiles ==
    { VSysInit
        \o <<VPush("constant", 5), VPop("pointer", 0), VPush("constant", 6),
             VPop("pointer", 1)>>
        \o VArguments(k) \o <<VCall(<<"f">>, k)>> \o VEnd
        \o <<VFunction(<<"f">>, n)>> \o body \o <<<<"return">>>>
        \o <<VFunction(<<"g">>, 0), VPush("argument", 0), <<"neg">>, <<"return">>>> :
      k \in 0..MaxArgs, n \in 0..MaxLocals, body \in VBodies }

\* files of the arithmetic, the branching and the memory commands
VOtherFiles ==
    { VSysInit
        \o <<VPush("constant", 3), VPush("constant", 4), <<"lt">>,
             VIfGoto(<<"L">>), VPush("constant", 1), VLabel(<<"L">>),
             VPush("constant", 2), VPush("constant", 2), <<"eq">>, <<"not">>,
             VIfGoto(<<"L">>), VPush("constant", 5), VPush("constant", 4), <<"gt">>,
             VPop("static", 1), VPush("static", 1), VPush("constant", 6), <<"and">>,
             VPush("constant", 1), <<"or">>, VPush("constant", 1), <<"sub">>,
             <<>>, VPop("temp", 7), VPush("temp", 7), VPop("that", 2), VPush("that", 2),
             VPop("this", 1), VPush("pointer", 1)>>
        \o VEnd,
      VSysInit \o <<VPush("constant", 1), VGoto(<<"X">>), VPush("constant", 2),
                    VLabel(<<"X">>), VPush("constant", 0), VIfGoto(<<"X">>),
                    VFunction(<<"f">>, 1), VLabel(<<"X">>), VGoto(<<"X">>)>>,
      VSysInit \o <<VPush("constant", 1), <<"pop">>>> }

\* files with a segment argument out of range
VSegmentFiles ==
    { VSysInit \o <<VPush("constant", 1), VPush("constant", 2), command>> \o VEnd :
      command \in {VPop("constant", 0), VPop("constant", 3),
                   VPush("pointer", 2), VPop("pointer", 2), VPush("pointer", 1),
                   VPop("pointer", 0), VPush("temp", 8), VPop("temp", 8),
                   VPush("temp", 0), VPop("temp", 7)} }

VMFiles == VCallFiles \cup VOtherFiles \cup VSegmentFiles

AsmInit ==
    /\ SymStart
    /\ toks = <<>>
    /\ pc = "vm_start"
    /\ ast = NoneVal
    /\ gen = NoneVal
    /\ pos = <<0, 0>>
    /\ last = NoneVal
    /\ out = [err |-> NoErr, code |-> <<>>]
    /\ tk = NoneVal
    /\ hack = NoneVal
    /\ \E verbose \in BOOLEAN, bootstrap \in BOOLEAN, lines \in VMFiles :
          vm = [cg |-> VMCodeGenerator(verbose), bootstrap |-> bootstrap,
                lines |-> lines, line_num |-> 0, asm |-> <<>>, commands |-> <<>>,
                rom |-> <<>>, labels |-> <<>>, calls |-> {}, returns |-> {},
                a |-> 0, d |-> 0, ip |-> 0, ram |-> [x \in RamAddrs |-> 0],
                steps |-> 0, frames |-> <<>>, leaving |-> NoneVal, resumed |-> NoneVal]

AsmNext == TrStart \/ TrCommand \/ TrEnd \/ AsmLoad \/ AsmStep \/ AsmHalt

SpecAsm == AsmInit /\ [][AsmNext]_vars

\* ------------------------------------------------------------------------
\* Claims about the VM translator
\* ------------------------------------------------------------------------
\* the place of the first line of a command's code that is the A-instruction
\* of a symbol, 0 if there is none
FirstAt(lines, symbol) ==
    IF \E i \in 1..Len(lines) : IsAtSym(lines[i], symbol)
    THEN CHOOSE i \in 1..Len(lines) :
            /\ IsAtSym(lines[i], symbol)
            /\ \A j \in 1..(i - 1) : ~IsAtSym(lines[j], symbol)
    ELSE 0

\* a return has just jumped, out of a function entered by a call
Resumed ==
    /\ pc = "exec"
    /\ vm.resumed # NoneVal
    /\ vm.resumed.frame # NoneVal
    /\ vm.resumed.leaving # NoneVal

\* C17: after `call f k`, `function f n`, a body that leaves v on the stack
\* and `return`, the program goes on at (RETURN_m) of that call with LCL, ARG,
\* THIS and THAT as they were at the call, SP = SP at the call - k + 1 and v
\* at RAM[SP-1], for any k >= 0 and n >= 0; and the code of return reads the
\* return address (into R14) before it writes the return value to *ARG.
C17_CallReturnProtocol ==
    /\ Resumed =>
          /\ vm.ip = vm.labels[ReturnLabel(vm.resumed.frame.m)]
          /\ vm.ram[1] = vm.resumed.frame.LCL
          /\ vm.ram[2] = vm.resumed.frame.ARG
          /\ vm.ram[3] = vm.resumed.frame.THIS
          /\ vm.ram[4] = vm.resumed.frame.THAT
          /\ vm.ram[0] = vm.resumed.frame.SP - vm.resumed.frame.k + 1
          /\ vm.ram[vm.ram[0] - 1] = vm.resumed.leaving.v
    /\ pc \in {"vm_lines", "translated"} =>
          \A i \in 1..Len(vm.commands) :
             vm.commands[i].command_type = "RETURN" =>
                /\ FirstAt(vm.commands[i].lines, SymR(14)) > 0
                /\ FirstAt(vm.commands[i].lines, SymR(14))
                      < FirstAt(vm.commands[i].lines, SymARG)

\* a call without arguments has returned: the return value is where the
\* return address was
C17_Witness ==
    /\ Resumed
    /\ vm.resumed.frame.k = 0
    /\ vm.resumed.leaving.v = 7
    /\ vm.ip = vm.labels[ReturnLabel(vm.resumed.frame.m)]
    /\ vm.ram[vm.ram[0] - 1] = 7
    /\ vm.ram[0] = vm.resumed.frame.SP + 1

\* the places <<i, j>> of the label definitions that the commands minting
\* labels from _uniq_int (the calls, the bootstrap call among them, and the
\* comparisons) have emitted: line j of logged command i
MintedDefs ==
    {p \in UNION {{<<i, j>> : j \in 1..Len(vm.commands[i].lines)} :
                     i \in 1..Len(vm.commands)} :
        /\ vm.commands[p[1]].command_type \in {"INIT", "CALL", "ARITHMETIC"}
        /\ vm.commands[p[1]].lines[p[2]].op = "()"}

\* the lines of a command's code that mention RETURN_m, for any m up to now
ReturnDefs(command) ==
    {j \in 1..Len(command.lines) :
        \E m \in 0..vm.cg.uniq_int : IsLabelDef(command.lines[j], ReturnLabel(m))}

ReturnUses(command) ==
    {j \in 1..Len(command.lines) :
        \E m \in 0..vm.cg.uniq_int : IsAtSym(command.lines[j], ReturnLabel(m))}

\* C18: over the commands one CodeGenerator has translated, the bootstrap
\* call among them, every call has emitted exactly one (RETURN_m) and exactly
\* one @RETURN_m, with the same m; no two label definitions minted from
\* _uniq_int are equal; and _uniq_int has never decreased.
C18_MintedLabelsUnique ==
    pc \in {"vm_lines", "translated", "raised"} =>
       /\ \A i \in 1..Len(vm.commands) :
             vm.commands[i].command_type \in {"INIT", "CALL"} =>
                /\ ReturnDefs(vm.commands[i])
                      = {j \in 1..Len(vm.commands[i].lines) :
                            IsLabelDef(vm.commands[i].lines[j],
                                       ReturnLabel(vm.commands[i].uniq_int))}
                /\ ReturnUses(vm.commands[i])
                      = {j \in 1..Len(vm.commands[i].lines) :
                            IsAtSym(vm.commands[i].lines[j],
                                    ReturnLabel(vm.commands[i].uniq_int))}
                /\ Cardinality(ReturnDefs(vm.commands[i])) = 1
                /\ Cardinality(ReturnUses(vm.commands[i])) = 1
       /\ \A p \in MintedDefs, q \in MintedDefs :
             p # q => vm.commands[p[1]].lines[p[2]].value
                         # vm.commands[q[1]].lines[q[2]].value
       /\ \A i \in 1..Len(vm.commands) :
             /\ vm.commands[i].uniq_int <= vm.cg.uniq_int
             /\ \A j \in 1..(i - 1) : vm.commands[j].uniq_int <= vm.commands[i].uniq_int

\* a file is translated in which the bootstrap call, two calls and a
\* comparison have taken the numbers 0 to 3
C18_Witness ==
    /\ pc = "translated"
    /\ vm.cg.uniq_int = 4
    /\ vm.commands[1].command_type = "INIT"
    /\ \E i \in 1..Len(vm.commands), j \in 1..Len(vm.commands) :
          /\ vm.commands[i].command_type = "CALL"
          /\ vm.commands[i].uniq_int = 2
          /\ vm.commands[j].command_type = "ARITHMETIC"
          /\ vm.commands[j].uniq_int = 3
          /\ Cardinality(MintedDefs) = 5

\* a push or pop whose segment argument is not legal: pop constant i,
\* pointer i with i not 0 or 1, temp i with i not in 0..7
IllegalSegmentArgument(command) ==
    /\ command.command_type \in {"PUSH", "POP"}
    /\ \/ command.command_type = "POP" /\ command.arguments[1] = "constant"
       \/ command.arguments[1] = "pointer" /\ command.arguments[2] \notin {0, 1}
       \/ command.arguments[1] = "temp" /\ command.arguments[2] \notin 0..7

\* C19: a push or pop with an illegal segment argument (pop constant i,
\* pointer i outside {0, 1}, temp i outside 0..7) is rejected with
\* InvalidArgumentError and no code is emitted for it.
C19_IllegalSegmentRejected ==
    pc \in {"vm_lines", "translated", "raised"} =>
       \A i \in 1..Len(vm.commands) :
          IllegalSegmentArgument(vm.commands[i]) =>
             /\ vm.commands[i].err = "InvalidArgumentError"
             /\ vm.commands[i].lines = <<>>

\* the code of a logged command without its comment lines
CodeOf(command) == SelectSeq(command.lines, LAMBDA l : l.op # "//")

\* the logged `function` commands before command i, and the name of the
\* most recent of them
FunctionsBefore(i) == {j \in 1..(i - 1) : vm.commands[j].command_type = "FUNCTION"}

MostRecentFunction(i) ==
    vm.commands[CHOOSE j \in FunctionsBefore(i) :
                   \A h \in FunctionsBefore(i) : h <= j].arguments[1]

\* the label F$s of symbol s in command i
ScopedLabel(i) == MostRecentFunction(i) \o <<"$">> \o vm.commands[i].arguments[1]

\* C20: whether the generator is verbose or not, `label s` emits (F$s),
\* `goto s` emits a jump to @F$s, and `if-goto s` pops the stack and jumps
\* to @F$s when the value is not 0, F being the name of the most recent
\* `function` command.
C20_BranchingInFunctionScope ==
    pc \in {"vm_lines", "translated", "raised"} =>
       \A i \in 1..Len(vm.commands) :
          FunctionsBefore(i) # {} =>
             /\ vm.commands[i].command_type = "LABEL" =>
                   CodeOf(vm.commands[i]) = <<LabelDef(ScopedLabel(i))>>
             /\ vm.commands[i].command_type = "GOTO" =>
                   CodeOf(vm.commands[i])
                      = <<AtSym(ScopedLabel(i)), CInstr("", "0", "JMP")>>
             /\ vm.commands[i].command_type = "IFGOTO" =>
                   CodeOf(vm.commands[i])
                      = <<AtSym(SymSP), CInstr("AM", "M-1", ""), CInstr("D", "M", ""),
                          AtSym(ScopedLabel(i)), CInstr("", "D", "JNE")>>

\* ------------------------------------------------------------------------
\* One arithmetic command on a prepared stack: the file is the command
\* alone, and the RAM holds z, x and y in the three cells below SP and
\* distinct values in LCL, ARG, THIS and THAT, as a test of the command sets
\* them before the program runs.
\* ------------------------------------------------------------------------
OpWords == {-32768, -32767, -2, -1, 0, 1, 6, 32767}

OpStack == 256

OpRam(x, y) ==
    [a \in RamAddrs |->
        IF a = 0 THEN OpStack + 3
        ELSE IF a \in 1..4 THEN 300 + a
        ELSE IF a = OpStack THEN 21
        ELSE IF a = OpStack + 1 THEN x
        ELSE IF a = OpStack + 2 THEN y
        ELSE 0]

OpInit ==
    /\ SymStart
    /\ toks = <<>>
    /\ pc = "vm_start"
    /\ ast = NoneVal
    /\ gen = NoneVal
    /\ pos = <<0, 0>>
    /\ last = NoneVal
    /\ out = [err |-> NoErr, code |-> <<>>]
    /\ tk = NoneVal
    /\ hack = NoneVal
    /\ \E verbose \in BOOLEAN, x \in OpWords, y \in OpWords,
          command \in {"add", "sub", "and", "or", "eq", "gt", "lt"} :
          vm = [cg |-> VMCodeGenerator(verbose), bootstrap |-> FALSE,
                lines |-> <<<<command>>>>, line_num |-> 0, asm |-> <<>>, commands |-> <<>>,
                rom |-> <<>>, labels |-> <<>>, calls |-> {}, returns |-> {},
                a |-> 0, d |-> 0, ip |-> 0, ram |-> OpRam(x, y),
                steps |-> 0, frames |-> <<>>, leaving |-> NoneVal, resumed |-> NoneVal,
                input |-> [x |-> x, y |-> y]]

SpecOp == OpInit /\ [][AsmNext]_vars

\* the command of a run of SpecOp, and the run at its end
OpCommand == vm.lines[1][1]
OpDone == pc = "halted" /\ vm.ip = Len(vm.rom) /\ Len(vm.lines) = 1

\* the word of a number, as a signed number
Word16(n) == IF n % 65536 >= 32768 THEN (n % 65536) - 65536 ELSE n % 65536

\* the cells that the command is to leave alone: the cell below x and the
\* segment pointers
OpRestUnchanged ==
    /\ vm.ram[OpStack] = 21
    /\ \A a \in 1..4 : vm.ram[a] = 300 + a

\* C21: the code of add, sub, and, or, run with x at RAM[SP-2] and y at
\* RAM[SP-1], decreases SP by 1 and leaves x op y, as a 16-bit word, at
\* RAM[SP-1] (x - y for sub); the cell below and LCL, ARG, THIS and THAT
\* are unchanged.
C21_BinaryOp ==
    (OpDone /\ OpCommand \in {"add", "sub", "and", "or"}) =>
       /\ vm.ram[0] = OpStack + 2
       /\ OpRestUnchanged
       /\ vm.ram[vm.ram[0] - 1]
             = (CASE OpCommand = "add" -> Word16(vm.input.x + vm.input.y)
                  [] OpCommand = "sub" -> Word16(vm.input.x - vm.input.y)
                  [] OpCommand = "and" ->
                        Word16(BitOp("&", vm.input.x % 65536, vm.input.y % 65536, 16))
                  [] OpCommand = "or" ->
                        Word16(BitOp("|", vm.input.x % 65536, vm.input.y % 65536, 16)))

\* 32767 - (-1) has been computed: the difference wraps to -32768
C21_Witness ==
    /\ OpDone
    /\ OpCommand = "sub"
    /\ vm.input = [x |-> 32767, y |-> -1]
    /\ vm.ram[0] = OpStack + 2
    /\ vm.ram[OpStack + 1] = -32768

\* C30: the code of gt (lt, eq), run with the 16-bit words x at RAM[SP-2]
\* and y at RAM[SP-1], decreases SP by 1 and leaves -1 at RAM[SP-1] if
\* x > y (x < y, x = y) as signed numbers and 0 otherwise, also when x - y
\* overflows.
C30_Comparison ==
    (OpDone /\ OpCommand \in {"eq", "gt", "lt"}) =>
       /\ vm.ram[0] = OpStack + 2
       /\ vm.ram[vm.ram[0] - 1]
             = (IF CASE OpCommand = "gt" -> vm.input.x > vm.input.y
                     [] OpCommand = "lt" -> vm.input.x < vm.input.y
                     [] OpCommand = "eq" -> vm.input.x = vm.input.y
                THEN -1 ELSE 0)

\* ------------------------------------------------------------------------
\* assembler.py: the statements of an assembly file.  A line of the file is
\* a sequence of characters.  A parsed statement is one of the records of
\* assembly above: AInstructionNumeric is AtNum, AInstructionSymbolic is
\* AtSym, Symbol is LabelDef and NoneLine is AsmComment; a CInstruction
\* holds its three groups as the characters matched, <<>> for a group that
\* is None.
\* ------------------------------------------------------------------------
CInstruction(dest, comp, jump) == [op |-> "C", dest |-> dest, comp |-> comp, jump |-> jump]

SOk(val) == [err |-> NoErr, val |-> val]
SErr == [err |-> "ParseError", val |-> NoneVal]

\* \s* at the start of a line
LStrip(line) == Drop(line, PrefixLen(line, WhiteChars))

\* \s*(//.*)?$
EndsLine(rest) == LStrip(rest) = <<>> \/ StartsWith(LStrip(rest), <<"/", "/">>)

\* the characters of [a-zA-Z\d_\.:$] and of [a-zA-Z\d_\.$]
ASymbolChars == LowerChars \cup UpperChars \cup DigitSet \cup {"_", ".", ":", "$"}
LabelChars == LowerChars \cup UpperChars \cup DigitSet \cup {"_", ".", "$"}

\* parse_a_instruction_numeric: ^\s*@(\d+)\s*(//.*)?$
parse_a_instruction_numeric(line) ==
    LET r == LStrip(line)
        n == IF r = <<>> THEN 0 ELSE PrefixLen(Tail(r), DigitSet)
    IN  IF r # <<>> /\ r[1] = "@" /\ n >= 1 /\ EndsLine(Drop(r, n + 1))
        THEN SOk(AtNum(PyInt(SubSeq(r, 2, n + 1))))
        ELSE SErr

\* parse_a_instruction_symbolic: ^\s*@([a-zA-Z][a-zA-Z\d_\.:$]*)\s*(//.*)?$
parse_a_instruction_symbolic(line) ==
    LET r == LStrip(line)
        n == IF r = <<>> THEN 0 ELSE PrefixLen(Tail(r), ASymbolChars)
    IN  IF /\ r # <<>> /\ r[1] = "@" /\ n >= 1
           /\ r[2] \in LowerChars \cup UpperChars
           /\ EndsLine(Drop(r, n + 1))
        THEN SOk(AtSym(SubSeq(r, 2, n + 1)))
        ELSE SErr

\* parse_c_instruction, the destination: ^\s*(([AMD]{1,3})\s*=)?(.*)$, which
\* matches every line; [dest, rest]
c_dest(line) ==
    LET r == LStrip(line)
        n == PrefixLen(r, {"A", "M", "D"})
        after == LStrip(Drop(r, n))
    IN  IF n \in 1..3 /\ after # <<>> /\ after[1] = "="
        THEN [dest |-> SubSeq(r, 1, n), rest |-> Tail(after)]
        ELSE [dest |-> <<>>, rest |-> r]

\* parse_c_instruction, the computation:
\* ^\s*([1AMD]?)\s*([+\-!&|]?)\s*([01AMD])(.*)$.  The two optional groups
\* are tried non-empty first, the second given up before the first; the
\* result is [err, comp, rest] of the first way that matches.
c_comp_try(r, first, second) ==
    LET r1 == IF first THEN LStrip(Tail(r)) ELSE r
        r2 == IF second THEN LStrip(Tail(r1)) ELSE r1
    IN  IF /\ first => r # <<>> /\ r[1] \in {"1", "A", "M", "D"}
           /\ second => r1 # <<>> /\ r1[1] \in {"+", "-", "!", "&", "|"}
           /\ r2 # <<>> /\ r2[1] \in {"0", "1", "A", "M", "D"}
        THEN [err |-> NoErr,
              comp |-> (IF first THEN <<r[1]>> ELSE <<>>)
                          \o (IF second THEN <<r1[1]>> ELSE <<>>) \o <<r2[1]>>,
              rest |-> Tail(r2)]
        ELSE [err |-> "ParseError", comp |-> <<>>, rest |-> <<>>]

c_comp(line) ==
    LET r == LStrip(line)
    IN  IF c_comp_try(r, TRUE, TRUE).err = NoErr THEN c_comp_try(r, TRUE, TRUE)
        ELSE IF c_comp_try(r, TRUE, FALSE).err = NoErr THEN c_comp_try(r, TRUE, FALSE)
        ELSE IF c_comp_try(r, FALSE, TRUE).err = NoErr THEN c_comp_try(r, FALSE, TRUE)
        ELSE c_comp_try(r, FALSE, FALSE)

\* parse_c_instruction, the jump:
\* ^\s*(;\s*(JGT|JEQ|JGE|JLT|JNE|JLE|JMP))?\s*(//.*)?$; [err, jump]
JumpNames ==
    {<<"J", "G", "T">>, <<"J", "E", "Q">>, <<"J", "G", "E">>, <<"J", "L", "T">>,
     <<"J", "N", "E">>, <<"J", "L", "E">>, <<"J", "M", "P">>}

c_jump(line) ==
    LET r == LStrip(line)
        j == IF r # <<>> /\ r[1] = ";" THEN LStrip(Tail(r)) ELSE <<>>
    IN  IF Len(j) >= 3 /\ SubSeq(j, 1, 3) \in JumpNames /\ EndsLine(Drop(j, 3))
        THEN [err |-> NoErr, jump |-> SubSeq(j, 1, 3)]
        ELSE IF EndsLine(r) THEN [err |-> NoErr, jump |-> <<>>]
        ELSE [err |-> "ParseError", jump |-> <<>>]

\* parse_c_instruction
parse_c_instruction(line) ==
    LET d == c_dest(line)
        c == c_comp(d.rest)
        j == c_jump(c.rest)
    IN  IF c.err # NoErr \/ j.err # NoErr THEN SErr
        ELSE SOk(CInstruction(d.dest, c.comp, j.jump))

\* parse_symbol: ^\s*\(([a-zA-Z][a-zA-Z\d_\.$]*)\)\s*(//.*)?$
parse_symbol(line) ==
    LET r == LStrip(line)
        n == IF r = <<>> THEN 0 ELSE PrefixLen(Tail(r), LabelChars)
    IN  IF /\ r # <<>> /\ r[1] = "(" /\ n >= 1
           /\ r[2] \in LowerChars \cup UpperChars
           /\ Len(r) >= n + 2 /\ r[n + 2] = ")"
           /\ EndsLine(Drop(r, n + 2))
        THEN SOk(LabelDef(SubSeq(r, 2, n + 1)))
        ELSE SErr

\* parse_null_line: ^\s*(//.*)?$
parse_null_line(line) == IF EndsLine(line) THEN SOk(AsmComment) ELSE SErr

\* parse_statement and _parse_one_of: the first parser that does not raise
asm_parse_statement(line) ==
    IF parse_a_instruction_numeric(line).err = NoErr THEN parse_a_instruction_numeric(line)
    ELSE IF parse_a_instruction_symbolic(line).err = NoErr
    THEN parse_a_instruction_symbolic(line)
    ELSE IF parse_c_instruction(line).err = NoErr THEN parse_c_instruction(line)
    ELSE IF parse_symbol(line).err = NoErr THEN parse_symbol(line)
    ELSE parse_null_line(line)

\* create_machine_code_tables: the three tables, as sequences of pairs of a
\* mnemonic and its bits, in the order of the source; None is <<>>
comp_table ==
    <<<<<<"0">>, <<"0", "1", "0", "1", "0", "1", "0">>>>,
      <<<<"1">>, <<"0", "1", "1", "1", "1", "1", "1">>>>,
      <<<<"-", "1">>, <<"0", "1", "1", "1", "0", "1", "0">>>>,
      <<<<"D">>, <<"0", "0", "0", "1", "1", "0", "0">>>>,
      <<<<"A">>, <<"0", "1", "1", "0", "0", "0", "0">>>>,
      <<<<"M">>, <<"1", "1", "1", "0", "0", "0", "0">>>>,
      <<<<"!", "D">>, <<"0", "0", "0", "1", "1", "0", "1">>>>,
      <<<<"!", "A">>, <<"0", "1", "1", "0", "0", "0", "1">>>>,
      <<<<"!", "M">>, <<"1", "1", "1", "0", "0", "0", "1">>>>,
      <<<<"-", "D">>, <<"0", "0", "0", "1", "1", "1", "1">>>>,
      <<<<"-", "A">>, <<"0", "1", "1", "0", "0", "1", "1">>>>,
      <<<<"-", "M">>, <<"0", "1", "1", "0", "0", "1", "1">>>>,
      <<<<"D", "+", "1">>, <<"0", "0", "1", "1", "1", "1", "1">>>>,
      <<<<"A", "+", "1">>, <<"0", "1", "1", "0", "1", "1", "1">>>>,
      <<<<"M", "+", "1">>, <<"1", "1", "1", "0", "1", "1", "1">>>>,
      <<<<"D", "-", "1">>, <<"0", "0", "0", "1", "1", "1", "0">>>>,
      <<<<"A", "-", "1">>, <<"0", "1", "1", "0", "0", "1", "0">>>>,
      <<<<"M", "-", "1">>, <<"1", "1", "1", "0", "0", "1", "0">>>>,
      <<<<"D", "+", "A">>, <<"0", "0", "0", "0", "0", "1", "0">>>>,
      <<<<"D", "+", "M">>, <<"1", "0", "0", "0", "0", "1", "0">>>>,
      <<<<"D", "-", "A">>, <<"0", "0", "1", "0", "0", "1", "1">>>>,
      <<<<"D", "-", "M">>, <<"1", "0", "1", "0", "0", "1", "1">>>>,
      <<<<"A", "-", "D">>, <<"0", "0", "0", "0", "1", "1", "1">>>>,
      <<<<"M", "-", "D">>, <<"1", "0", "0", "0", "1", "1", "1">>>>,
      <<<<"D", "&", "A">>, <<"0", "0", "0", "0", "0", "0", "0">>>>,
      <<<<"D", "&", "M">>, <<"1", "0", "0", "0", "0", "0", "0">>>>,
      <<<<"D", "|", "A">>, <<"0", "0", "1", "0", "1", "0", "1">>>>,
      <<<<"D", "|", "M">>, <<"1", "0", "1", "0", "1", "0", "1">>>>>>

dest_table ==
    <<<<<<>>, <<"0", "0", "0">>>>,
      <<<<"M">>, <<"0", "0", "1">>>>,
      <<<<"D">>, <<"0", "1", "0">>>>,
      <<<<"M", "D">>, <<"0", "1", "1">>>>,
      <<<<"A">>, <<"1", "0", "0">>>>,
      <<<<"A", "M">>, <<"1", "0", "1">>>>,
      <<<<"A", "D">>, <<"1", "1", "0">>>>,
      <<<<"A", "M", "D">>, <<"1", "1", "1">>>>>>

jump_table ==
    <<<<<<>>, <<"0", "0", "0">>>>,
      <<<<"J", "G", "T">>, <<"0", "0", "1">>>>,
      <<<<"J", "E", "Q">>, <<"0", "1", "0">>>>,
      <<<<"J", "G", "E">>, <<"0", "1", "1">>>>,
      <<<<"J", "L", "T">>, <<"1", "0", "0">>>>,
      <<<<"J", "N", "E">>, <<"1", "0", "1">>>>,
      <<<<"J", "L", "E">>, <<"1", "1", "0">>>>,
      <<<<"J", "M", "P">>, <<"1", "1", "1">>>>>>

\* the value of a key in one of the tables; a key that is missing is the
\* KeyError that gen_machine_code turns into ParseError
TableHas(table, key) == \E i \in 1..Len(table) : table[i][1] = key
TableGet(table, key) == table[CHOOSE i \in 1..Len(table) : table[i][1] = key][2]

\* f"{n:b}" and f"{n:015b}": the binary digits of n, filled with zeros on the
\* left up to 15 characters
RECURSIVE Bin(_)
Bin(n) == IF n < 2 THEN <<DigitChars[n + 1]>>
          ELSE Bin(n \div 2) \o <<DigitChars[(n % 2) + 1]>>

Format015b(n) ==
    IF Len(Bin(n)) >= 15 THEN Bin(n)
    ELSE [i \in 1..(15 - Len(Bin(n))) |-> "0"] \o Bin(n)

\* gen_machine_code, for one instruction: [err, word]
gen_machine_code(instruction) ==
    IF instruction.op = "@"
    THEN [err |-> NoErr, word |-> <<"0">> \o Format015b(instruction.value)]
    ELSE IF /\ TableHas(comp_table, instruction.comp)
            /\ TableHas(dest_table, instruction.dest)
            /\ TableHas(jump_table, instruction.jump)
    THEN [err |-> NoErr,
          word |-> <<"1", "1", "1">> \o TableGet(comp_table, instruction.comp)
                      \o TableGet(dest_table, instruction.dest)
                      \o TableGet(jump_table, instruction.jump)]
    ELSE [err |-> "ParseError", word |-> <<>>]

\* a location that does not move on to the next address
ram_location_reuse(ram, symbol) ==
    IF symbol \in DOMAIN ram.table
    THEN [ram EXCEPT !.address = ram.table[symbol]]
    ELSE [table |-> (symbol :> ram.cur_mem_addr) @@ ram.table,
          cur_mem_addr |-> ram.cur_mem_addr,
          address |-> ram.cur_mem_addr]

\* RamSymbolTable.location: [table, cur_mem_addr, address]
ram_location(ram, symbol) ==
    IF symbol \in DOMAIN ram.table
    THEN [ram EXCEPT !.address = ram.table[symbol]]
    ELSE [table |-> (symbol :> ram.cur_mem_addr) @@ ram.table,
          cur_mem_addr |-> ram.cur_mem_addr + 1,
          address |-> ram.cur_mem_addr]

\* ------------------------------------------------------------------------
\* assembler.py: main.  Pass 1 parses the lines and fills the ROM symbol
\* table; pass 2 parses them again, replaces the symbols and encodes the
\* instructions, one line at a time; the words are written at the end.
\* hack.statements is the log of pass 2: per line, the statement parsed, the
\* address a symbol was replaced by, and the word (<<>> for no word).
\* ------------------------------------------------------------------------
HackStart(lines) ==
    [lines |-> lines, line_num |-> 0, instruction_number |-> 0,
     rom_symbol_table |-> <<>>,
     ram |-> [table |-> RamPredefined, cur_mem_addr |-> 16, address |-> 0],
     machine_code |-> <<>>, statements |-> <<>>]

\* a first pass that counts the label lines as well
fill_rom_symbol_table_counting(h, statement) ==
    IF statement.op = "()"
    THEN [h EXCEPT !.rom_symbol_table = (statement.value :> h.instruction_number) @@ @,
                   !.instruction_number = @ + 1]
    ELSE IF IsInstruction(statement) THEN [h EXCEPT !.instruction_number = @ + 1]
    ELSE h

\* fill_rom_symbol_table, for one statement of gen_instructions (NoneLine
\* is not among them)
fill_rom_symbol_table(h, statement) ==
    IF statement.op = "()"
    THEN [h EXCEPT !.rom_symbol_table = (statement.value :> h.instruction_number) @@ @]
    ELSE IF IsInstruction(statement) THEN [h EXCEPT !.instruction_number = @ + 1]
    ELSE h

\* main, the first pass over the lines of the file, for the next line
HkFirstPass ==
    /\ pc = "pass1"
    /\ hack.line_num < Len(hack.lines)
    /\ \E s \in {asm_parse_statement(hack.lines[hack.line_num + 1])} :
          IF s.err # NoErr
          THEN /\ Raise(s.err)
               /\ hack' = [hack EXCEPT !.line_num = @ + 1]
          ELSE /\ hack' = [fill_rom_symbol_table(hack, s.val) EXCEPT !.line_num = @ + 1]
               /\ UNCHANGED <<pc, out>>
    /\ UNCHANGED <<symVars, toks, ast, gen, pos, last, vm, tk>>

\* main: the first pass is over, the lines are read again
HkSecondPassStart ==
    /\ pc = "pass1"
    /\ hack.line_num = Len(hack.lines)
    /\ hack' = [hack EXCEPT !.line_num = 0]
    /\ pc' = "pass2"
    /\ UNCHANGED <<symVars, toks, ast, gen, pos, last, out, vm, tk>>

\* the statement of pass 2 with its symbol replaced: [ram, instruction]
translate_symbol(h, statement) ==
    IF statement.op = "@" /\ statement.kind = "sym"
    THEN IF statement.value \in DOMAIN h.rom_symbol_table
         THEN [ram |-> h.ram, instruction |-> AtNum(h.rom_symbol_table[statement.value])]
         ELSE [ram |-> ram_location(h.ram, statement.value),
               instruction |-> AtNum(ram_location(h.ram, statement.value).address)]
    ELSE [ram |-> h.ram, instruction |-> statement]

\* gen_translated_symbols and gen_machine_code over gen_instructions, for
\* the next line
HkSecondPass ==
    /\ pc = "pass2"
    /\ hack.line_num < Len(hack.lines)
    /\ \E s \in {asm_parse_statement(hack.lines[hack.line_num + 1])} :
          IF ~IsInstruction(s.val)
          THEN /\ hack' = [hack EXCEPT
                              !.line_num = @ + 1,
                              !.statements =
                                  Append(@, [statement |-> s.val, address |-> -1,
                                             word |-> <<>>])]
               /\ UNCHANGED <<pc, out>>
          ELSE \E t \in {translate_symbol(hack, s.val)} :
                  \E m \in {gen_machine_code(t.instruction)} :
                     /\ hack' = [hack EXCEPT
                                    !.line_num = @ + 1,
                                    !.ram = t.ram,
                                    !.machine_code =
                                        IF m.err = NoErr THEN Append(@, m.word) ELSE @,
                                    !.statements =
                                        Append(@, [statement |-> s.val,
                                                   address |-> IF s.val.op = "@"
                                                               THEN t.instruction.value
                                                               ELSE -1,
                                                   word |-> m.word])]
                     /\ IF m.err # NoErr THEN Raise(m.err) ELSE UNCHANGED <<pc, out>>
    /\ UNCHANGED <<symVars, toks, ast, gen, pos, last, vm, tk>>

\* main: output_filepath.write_text
HkWrite ==
    /\ pc = "pass2"
    /\ hack.line_num = Len(hack.lines)
    /\ pc' = "assembled"
    /\ out' = [err |-> NoErr, code |-> hack.machine_code]
    /\ UNCHANGED <<symVars, toks, ast, gen, pos, last, vm, tk, hack>>

\* ------------------------------------------------------------------------
\* The assembly files assembled: two of the pieces below, one after the
\* other.
\* ------------------------------------------------------------------------
HackPieces ==
    { \* a counter and a loop
      <<<<"@", "i">>,
        <<"M", "=", "1", " ", "/", "/", " ", "i">>,
        <<"(", "L", "O", "O", "P", ")">>,
        <<"@", "i">>,
        <<"D", "=", "M">>,
        <<"@", "E", "N", "D">>,
        <<"D", ";", "J", "G", "T">>>>,
      \* a sum, and the end of the loop
      <<<<"@", "s", "u", "m">>,
        <<"M", "=", "D", "+", "M">>,
        <<"@", "L", "O", "O", "P">>,
        <<"0", ";", " ", "J", "M", "P">>,
        <<"(", "E", "N", "D", ")">>,
        <<"@", "E", "N", "D">>,
        <<"0", ";", "J", "M", "P">>>>,
      \* predefined symbols and a variable
      <<<<" ", " ", "@", "S", "P">>,
        <<"@", "R", "1", "3">>,
        <<"@", "S", "C", "R", "E", "E", "N">>,
        <<"@", "K", "B", "D">>,
        <<"@", "T", "H", "A", "T">>,
        <<"@", "j">>>>,
      \* numbers at the limit of 15 bits
      <<<<"@", "3", "2", "7", "6", "7">>,
        <<"@", "3", "2", "7", "6", "8">>>>,
      \* the two negations
      <<<<"D", "=", "-", "A">>,
        <<"D", "=", "-", "M">>>>,
      \* a sum with the operands the other way round
      <<<<"M", "=", "M", "+", "D">>>>,
      \* a label with the name of a predefined symbol
      <<<<"(", "S", "P", ")">>,
        <<"@", "S", "P">>,
        <<"@", "L", "C", "L">>>>,
      \* comments, an empty line, white space
      <<<<"/", "/", " ", "c">>,
        <<>>,
        <<"\t", "D", " ", "=", " ", "A", " ", ";", " ", "J", "M", "P", " ", "/", "/", " ", "x">>,
        <<"A", "M", "D", "=", "D", "|", "M", ";", "J", "N", "E">>,
        <<"A", "=", "A", "-", "1">>,
        <<"!", "D", ";", "J", "L", "E">>>>,
      \* a label the pattern of labels does not match
      <<<<"@", "a", ":", "b">>,
        <<"(", "a", ":", "b", ")">>>>,
      \* uses before the definition, a second variable
      <<<<"@", "E", "N", "D">>,
        <<"@", "x", "1">>,
        <<"(", "N", "E", "X", "T", ")">>,
        <<"@", "N", "E", "X", "T">>,
        <<"@", "i">>,
        <<"D", "=", "D", "&", "A">>>>,
      \* a destination that is no key of the table
      <<<<"D", "M", "=", "1">>>> }

HackFiles == {p \o q : p \in HackPieces, q \in HackPieces}

\* the variables of a behaviour in which nothing is compiled or translated
HackIdle ==
    /\ SymStart
    /\ toks = <<>>
    /\ ast = NoneVal
    /\ gen = NoneVal
    /\ pos = <<0, 0>>
    /\ last = NoneVal
    /\ out = [err |-> NoErr, code |-> <<>>]
    /\ vm = NoneVal
    /\ tk = NoneVal

HackInit ==
    /\ HackIdle
    /\ pc = "pass1"
    /\ \E lines \in HackFiles : hack = HackStart(lines)

HackNext == HkFirstPass \/ HkSecondPassStart \/ HkSecondPass \/ HkWrite

SpecHack == HackInit /\ [][HackNext]_vars

\* ------------------------------------------------------------------------
\* Claims about the assembler
\* ------------------------------------------------------------------------
\* the statement of line k of the file, and the lines that define label s
LineStatement(k) == asm_parse_statement(hack.lines[k]).val
DefinedAt(s) == {k \in 1..Len(hack.lines) : IsLabelDef(LineStatement(k), s)}

\* the number of instructions among the lines before line k
InstructionLinesBefore(k) ==
    Cardinality({j \in 1..(k - 1) : IsInstruction(LineStatement(j))})

\* the second pass has not raised
SecondPassRuns == pc \in {"pass2", "assembled"}

PredefinedNames ==
    {SymSP, SymLCL, SymARG, SymTHIS, SymTHAT, <<"S", "C", "R", "E", "E", "N">>,
     <<"K", "B", "D">>} \cup {<<"R">> \o Str(n) : n \in 0..15}

FixedAddress(s) ==
    CASE s = SymSP -> 0
      [] s = SymLCL -> 1
      [] s = SymARG -> 2
      [] s = SymTHIS -> 3
      [] s = SymTHAT -> 4
      [] s = <<"S", "C", "R", "E", "E", "N">> -> 16384
      [] s = <<"K", "B", "D">> -> 24576
      [] OTHER -> CHOOSE n \in 0..15 : s = <<"R">> \o Str(n)

\* the labels of the file, and the symbol of logged statement i if it is
\* the A-instruction of a symbol
FileLabels == {LineStatement(k).value : k \in {j \in 1..Len(hack.lines) :
                                                LineStatement(j).op = "()"}}

IsSymbolic(i) ==
    hack.statements[i].statement.op = "@" /\ hack.statements[i].statement.kind = "sym"

\* the variables met in the first n statements of pass 2: the symbols that
\* are neither labels of the file nor predefined
VariablesIn(n) ==
    {hack.statements[j].statement.value :
        j \in {h \in 1..n : /\ IsSymbolic(h)
                            /\ hack.statements[h].statement.value
                                  \notin FileLabels \cup PredefinedNames}}

Bits15(n) == [j \in 1..15 |-> DigitChars[((n \div (2 ^ (15 - j))) % 2) + 1]]

\* C24: every line the assembler writes has exactly 16 characters, each 0
\* or 1; the line of an A-instruction is 0 and the 15 binary digits of its
\* number, the line of a C-instruction is 111 and the 7 bits of comp, the 3
\* of dest and the 3 of jump; so for every @N that is accepted, also an N
\* that does not fit in 15 bits, no longer line is written.
C24_SixteenBitLines ==
    /\ pc = "assembled" =>
          \A k \in 1..Len(out.code) :
             /\ Len(out.code[k]) = 16
             /\ \A c \in 1..16 : out.code[k][c] \in {"0", "1"}
    /\ pc = "assembled" =>
          \A i \in 1..Len(hack.statements) :
             LET s == hack.statements[i].statement
                 w == hack.statements[i].word
             IN  (IsInstruction(s) /\ w # <<>>) =>
                    IF s.op = "@"
                    THEN w = <<"0">> \o Bits15(hack.statements[i].address)
                    ELSE /\ Len(w) = 16
                         /\ SubSeq(w, 1, 3) = <<"1", "1", "1">>
                         /\ SubSeq(w, 4, 10) = TableGet(comp_table, s.comp)
                         /\ SubSeq(w, 11, 13) = TableGet(dest_table, s.dest)
                         /\ SubSeq(w, 14, 16) = TableGet(jump_table, s.jump)

\* the inverse of a table: the mnemonics the table encodes to bits
Decode(table, bits) == {table[i][1] : i \in {j \in 1..Len(table) : table[j][2] = bits}}

\* C25: decoding the word of a C-instruction the assembler has written with
\* the inverses of comp_table, dest_table and jump_table gives the comp,
\* dest and jump of the instruction that was parsed and nothing else: no two
\* mnemonics of a table have the same bits.
C25_DecodeRecovers ==
    pc = "assembled" =>
       \A i \in 1..Len(hack.statements) :
          LET s == hack.statements[i].statement
              w == hack.statements[i].word
          IN  s.op = "C" =>
                 /\ Decode(comp_table, SubSeq(w, 4, 10)) = {s.comp}
                 /\ Decode(dest_table, SubSeq(w, 11, 13)) = {s.dest}
                 /\ Decode(jump_table, SubSeq(w, 14, 16)) = {s.jump}

\* ------------------------------------------------------------------------
\* Further claims about the code generator of the compiler (checked under
\* Spec)
\* ------------------------------------------------------------------------

IsLabelLine(line) == Len(line) = 2 /\ line[1] = "label"
IsJumpLine(line) == Len(line) = 2 /\ line[1] \in {"goto", "if-goto"}

\* in the code emitted so far every target of a goto or an if-goto is
\* defined by exactly one label line of the same subroutine, and no name is
\* defined by two label lines of the class
LabelsClosed ==
    /\ \A lo \in 1..Len(out.code) :
          IsFunctionLine(out.code[lo]) =>
             \A j \in lo..(SubroutineEnd(out.code, lo) - 1) :
                IsJumpLine(out.code[j]) =>
                   Cardinality(LabelsAt(out.code, lo, SubroutineEnd(out.code, lo),
                                        out.code[j][2])) = 1
    /\ \A j \in 1..Len(out.code), k \in 1..Len(out.code) :
          (IsLabelLine(out.code[j]) /\ out.code[k] = out.code[j]) => j = k

\* a step of the generator never lowers _uniq_label, and the generation of
\* a statement raises it
LabelCounterGrows ==
    pc \in {"class", "body"} =>
       /\ gen'.uniq_label >= gen.uniq_label
       /\ (pc = "body" /\ pos[2] <= Len(CurDec.body.statements.statements)) =>
             gen'.uniq_label > gen.uniq_label

\* C26: in the VM code generated for a subroutine every target of a goto or
\* an if-goto is defined by exactly one label line of that subroutine; no
\* two if or while statements, one after the other or nested, in one
\* subroutine or in two, get the same label name; the label counter of the
\* generator grows strictly and no value of it is used again.
C26_LabelsClosedAndFresh == []LabelsClosed /\ [][LabelCounterGrows]_vars

\* a class is generated with two subroutines that both have jumps, the
\* second with an if and a while inside a while
C26_Witness ==
    /\ pc = "generated"
    /\ \E lo \in 1..Len(out.code), hi \in 1..Len(out.code) :
          /\ lo < hi
          /\ IsFunctionLine(out.code[lo]) /\ IsFunctionLine(out.code[hi])
          /\ \E j \in lo..hi : IsJumpLine(out.code[j])
          /\ \E a \in hi..Len(out.code), b \in hi..Len(out.code),
                c \in hi..Len(out.code), d \in hi..Len(out.code) :
                /\ a < b /\ b < c /\ c < d
                /\ IsJumpLine(out.code[a]) /\ IsLabelLine(out.code[d])
                /\ out.code[a][1] = "if-goto" /\ out.code[a][2] = out.code[d][2]
                /\ IsJumpLine(out.code[b]) /\ IsLabelLine(out.code[c])
                /\ out.code[b][1] = "if-goto" /\ out.code[b][2] = out.code[c][2]

\* the place, from 1, of a name among the declared parameters of a
\* subroutine, 0 if it is none of them
ParameterPlace(dec, name) ==
    LET places == {i \in 1..Len(dec.parameters.parameters) :
                      dec.parameters.parameters[i].items[2].value = name}
    IN  IF places = {} THEN 0 ELSE CHOOSE i \in places : TRUE

\* C29: a call obj.m(A1..Ak) pushes the receiver first and the prologue of
\* the method m(p1..pk) reads it from argument 0, so the body of m reads
\* and writes parameter pi at `argument i`: in the tables of a method no
\* declared parameter has index 0.
C29_MethodParametersAfterReceiver ==
    (pc \in {"body", "raised"} /\ gen # NoneVal /\ pos[1] >= 1
        /\ pos[1] <= Len(ast.val.subroutine_decs)
        /\ Len(gen.symbol_tables) = 2
        /\ CurDec.modifier.value = "method") =>
       /\ \A i \in 1..Len(CurDec.parameters.parameters) :
             LET name == CurDec.parameters.parameters[i].items[2].value
             IN  Holding(gen.symbol_tables, name) # {} =>
                    /\ Innermost(gen.symbol_tables, name).kind = "ARGUMENT"
                    /\ Innermost(gen.symbol_tables, name).index = i
       /\ (/\ JustGenerated
           /\ last.err = NoErr
           /\ last.statement.tag = "LetStatement"
           /\ last.statement.idx_expression.tag = "None"
           /\ ParameterPlace(CurDec, last.statement.name.value) > 0) =>
             last.code[Len(last.code)]
                = PopLine("argument", ParameterPlace(CurDec, last.statement.name.value))

\* ------------------------------------------------------------------------
\* parser.py: _peek, _next and _parse_next taken alone.  `toks` is the
\* stream a Parser is made for and `last` the parser with the calls made on
\* it so far, each with what it returned or raised.
\* ------------------------------------------------------------------------
PeekTokens == {Id(<<"x">>), Id(<<"y">>), Num(<<"1">>)}

RECURSIVE PeekStreams(_)
PeekStreams(n) ==
    IF n = 0 THEN {<<>>}
    ELSE PeekStreams(n - 1)
         \cup {Append(s, t) : s \in PeekStreams(n - 1), t \in PeekTokens}

PeekInit ==
    /\ SymStart
    /\ toks \in PeekStreams(MaxToks)
    /\ pc = "parser"
    /\ ast = NoneVal
    /\ gen = NoneVal
    /\ pos = <<0, 0>>
    /\ last = [p |-> Parser(toks), calls |-> <<>>]
    /\ out = NoneVal
    /\ vm = NoneVal
    /\ tk = NoneVal
    /\ hack = NoneVal

\* the call `op` has returned r
PeekCalled(op, r) ==
    /\ last' = [p |-> r.p,
                calls |-> Append(last.calls, [op |-> op, err |-> r.err, val |-> r.val])]
    /\ UNCHANGED <<symVars, toks, pc, ast, gen, pos, out, vm, tk, hack>>

PkPeek ==
    /\ pc = "parser"
    /\ Len(last.calls) < MaxCalls
    /\ \E r \in {P_peek(last.p)} : PeekCalled("_peek", r)

PkNext ==
    /\ pc = "parser"
    /\ Len(last.calls) < MaxCalls
    /\ \E r \in {P_next(last.p)} : PeekCalled("_next", r)

PkParseNext ==
    /\ pc = "parser"
    /\ Len(last.calls) < MaxCalls
    /\ \E a \in {<<"Identifier", {}>>, <<"Identifier", {<<"x">>}>>,
                 <<"IntegerConstant", {}>>} :
          \E r \in {parse_next(last.p, a[1], a[2])} : PeekCalled("_parse_next", r)

PeekNext == PkPeek \/ PkNext \/ PkParseNext

SpecPeek == PeekInit /\ [][PeekNext]_vars

\* the tokens _next has returned, to a caller or to _parse_next
Consumes(call) == call.op \in {"_next", "_parse_next"} /\ call.err = NoErr
RECURSIVE Delivered(_)
Delivered(calls) ==
    IF calls = <<>> THEN <<>>
    ELSE IF Consumes(calls[Len(calls)])
    THEN Append(Delivered(SubSeq(calls, 1, Len(calls) - 1)), calls[Len(calls)].val)
    ELSE Delivered(SubSeq(calls, 1, Len(calls) - 1))

\* C27: after any calls of _peek, _next and _parse_next the buffer holds at
\* most one token; _peek takes nothing away: a _peek or a _next that follows
\* a _peek returns the token that _peek returned; the tokens _next has
\* returned are the tokens of the stream in their order, each once, none left
\* out.
C27_OneTokenLookahead ==
    pc = "parser" =>
       /\ Len(last.p.look_ahead) <= 1
       /\ \A k \in 1..(Len(last.calls) - 1) :
             (last.calls[k].op = "_peek" /\ last.calls[k].err = NoErr
                 /\ last.calls[k + 1].op \in {"_peek", "_next"}) =>
                /\ last.calls[k + 1].err = NoErr
                /\ last.calls[k + 1].val = last.calls[k].val
       /\ Delivered(last.calls) \o last.p.look_ahead \o last.p.tokens = toks

\* _peek, _peek, _next, _next on a stream that starts with two different
\* tokens: the first three calls have returned the first token and the
\* fourth the second
C27_Witness ==
    /\ pc = "parser"
    /\ Len(toks) >= 2
    /\ toks[1] # toks[2]
    /\ Len(last.calls) = 4
    /\ \A k \in 1..4 : last.calls[k].err = NoErr
    /\ last.calls[1].op = "_peek" /\ last.calls[1].val = toks[1]
    /\ last.calls[2].op = "_peek" /\ last.calls[2].val = toks[1]
    /\ last.calls[3].op = "_next" /\ last.calls[3].val = toks[1]
    /\ last.calls[4].op = "_next" /\ last.calls[4].val = toks[2]

\* ------------------------------------------------------------------------
\* vm_translator.py and assembler.py, one after the other: the file that
\* the translator has written is the file that the assembler reads.
\* ------------------------------------------------------------------------

\* the characters of the mnemonics in the lines of the translator
MnemonicChars(m) ==
    CASE m = "" -> <<>>
      [] m = "A" -> <<"A">>
      [] m = "D" -> <<"D">>
      [] m = "M" -> <<"M">>
      [] m = "AM" -> <<"A", "M">>
      [] m = "0" -> <<"0">>
      [] m = "1" -> <<"1">>
      [] m = "-1" -> <<"-", "1">>
      [] m = "-M" -> <<"-", "M">>
      [] m = "!M" -> <<"!", "M">>
      [] m = "D+1" -> <<"D", "+", "1">>
      [] m = "D-1" -> <<"D", "-", "1">>
      [] m = "M+1" -> <<"M", "+", "1">>
      [] m = "M-1" -> <<"M", "-", "1">>
      [] m = "D+A" -> <<"D", "+", "A">>
      [] m = "D-A" -> <<"D", "-", "A">>
      [] m = "D+M" -> <<"D", "+", "M">>
      [] m = "M+D" -> <<"M", "+", "D">>
      [] m = "M-D" -> <<"M", "-", "D">>
      [] m = "D-M" -> <<"D", "-", "M">>
      [] m = "D&M" -> <<"D", "&", "M">>
      [] m = "D|M" -> <<"D", "|", "M">>
      [] m = "JMP" -> <<"J", "M", "P">>
      [] m = "JNE" -> <<"J", "N", "E">>
      [] m = "JEQ" -> <<"J", "E", "Q">>
      [] m = "JGT" -> <<"J", "G", "T">>
      [] m = "JLT" -> <<"J", "L", "T">>

\* the text of a line of the translator: "@256", "@SP", "(RETURN_0)",
\* "M=M+D", "D; JEQ", "0; JMP"; a comment line starts with //
AsmText(line) ==
    IF line.op = "//" THEN <<"/", "/", " ", "c">>
    ELSE IF line.op = "@"
    THEN <<"@">> \o (IF line.kind = "num" THEN Str(line.value) ELSE line.value)
    ELSE IF line.op = "()" THEN <<"(">> \o line.value \o <<")">>
    ELSE (IF line.dest = "" THEN <<>> ELSE MnemonicChars(line.dest) \o <<"=">>)
             \o MnemonicChars(line.comp)
             \o (IF line.jump = "" THEN <<>> ELSE <<";", " ">> \o MnemonicChars(line.jump))

\* assembler.py main: gen_lines on the file of the translator
ChainRead ==
    /\ pc = "translated"
    /\ hack' = HackStart([i \in 1..Len(vm.asm) |-> AsmText(vm.asm[i])])
    /\ pc' = "pass1"
    /\ UNCHANGED <<symVars, toks, ast, gen, pos, last, out, vm, tk>>

\* VM files: arithmetic, memory and branching commands without add; labels
\* after a function; a command that does not parse; a sum and a call; a
\* call, a function and a return without add; a label with a colon
ChainFiles ==
    VOtherFiles
      \cup { VSysInit \o <<VPush("constant", 2), VPush("constant", 3), <<"add">>,
                          VCall(<<"f">>, 1)>> \o VEnd
                 \o <<VFunction(<<"f">>, 1), VPush("argument", 0), <<"neg">>, <<"return">>>>,
             VSysInit \o <<VPush("constant", 2), VCall(<<"f">>, 1)>> \o VEnd
                 \o <<VFunction(<<"f">>, 1), VPush("argument", 0), VPop("local", 0),
                      VPush("constant", 0), <<"return">>>>,
             VSysInit \o <<VLabel(<<"a", ":", "b">>), VGoto(<<"a", ":", "b">>)>> }

ChainInit ==
    /\ SymStart
    /\ toks = <<>>
    /\ pc = "vm_start"
    /\ ast = NoneVal
    /\ gen = NoneVal
    /\ pos = <<0, 0>>
    /\ last = NoneVal
    /\ out = [err |-> NoErr, code |-> <<>>]
    /\ tk = NoneVal
    /\ hack = NoneVal
    /\ \E verbose \in BOOLEAN, bootstrap \in BOOLEAN, lines \in ChainFiles :
          vm = [cg |-> VMCodeGenerator(verbose), bootstrap |-> bootstrap,
                lines |-> lines, line_num |-> 0, asm |-> <<>>, commands |-> <<>>,
                rom |-> <<>>, labels |-> <<>>, calls |-> {}, returns |-> {},
                a |-> 0, d |-> 0, ip |-> 0, ram |-> [x \in RamAddrs |-> 0],
                steps |-> 0, frames |-> <<>>, leaving |-> NoneVal, resumed |-> NoneVal]

ChainNext ==
    \/ TrStart \/ TrCommand \/ TrEnd \/ ChainRead
    \/ HkFirstPass \/ HkSecondPassStart \/ HkSecondPass \/ HkWrite

SpecChain == ChainInit /\ [][ChainNext]_vars

\* the assembler takes a line: parse_statement parses it and, for a
\* C-instruction, gen_machine_code finds its three parts in the tables
Accepted(line) ==
    /\ asm_parse_statement(line).err = NoErr
    /\ asm_parse_statement(line).val.op = "C" =>
          gen_machine_code(asm_parse_statement(line).val).err = NoErr

\* C28: the assembler takes every line of the translator that is no comment,
\* of every command and of the bootstrap code: the mnemonics are keys of the
\* tables of the assembler (so the M=M+D of add) and the labels match the
\* pattern of its labels; so the assembler raises no ParseError on a file
\* the translator has written.
C28_TranslatorOutputAssembles ==
    /\ (pc = "vm_lines" /\ vm.commands # <<>>) =>
          \A i \in 1..Len(vm.commands[Len(vm.commands)].lines) :
             vm.commands[Len(vm.commands)].lines[i].op # "//" =>
                Accepted(AsmText(vm.commands[Len(vm.commands)].lines[i]))
    /\ hack # NoneVal => out.err = NoErr


=============================================================================
